---- MODULE Spec2Model ----
(***************************************************************************)
(* State-machine model of the GraphQL demonstration servers:               *)
(*   - the Prisma-backed server (src/server.js),                           *)
(*   - the array-backed server (src/unnamed/part_003),                     *)
(*   - the HTTP bootstrap with its port-fallback loop,                     *)
(*   - the cursor paginations of the guides (src/unnamed/part_000,         *)
(*     src/unnamed/part_002).                                              *)
(* A JavaScript string is a sequence of one-character strings, so that     *)
(* parseInt, String(n) and base64 are computed, not assumed.               *)
(***************************************************************************)
EXTENDS Integers, Sequences, FiniteSets, TLC

VARIABLES
    server,      \* which server.js runs: "prisma" or "array"
    userTable,   \* Prisma User table: set of rows
    postTable,   \* Prisma Post table: set of rows
    userSeq,     \* last id handed out by the User table's autoincrement
    postSeq,     \* last id handed out by the Post table's autoincrement
    posts,       \* the array `posts` of the array-backed server
    resp,        \* what the last resolver call returned
    created,     \* history: every successful createPost, with the id returned
    touched,     \* history: record ids targeted by a successful update/delete
    deleted      \* history: ID strings of the successful deletePost calls

VARIABLES
    occupied,    \* environment: ports another process holds (bind gives EADDRINUSE)
    denied,      \* environment: ports whose bind fails with another error
    lpc,         \* where the bootstrap stands
    portIndex,   \* argument of the latest startListening call
    attempted,   \* history: the ports handed to app.listen, in order
    outcomes,    \* history: how each finished listen attempt ended
    bound,       \* ports the process listens on
    closed,      \* ports whose httpServer was closed
    log          \* console output

VARIABLES
    pagination,  \* which guide's resolver runs: "users" (list) or "posts" (SQL)
    allUsers,    \* what db.users.findAll() returns: the list of users
    pgPosts,     \* the rows of the SQL table posts
    page,        \* what the last paginated request returned
    trail        \* the client that follows endCursor: its page size, the ids
                 \* it has been served, and where it stands

VARIABLES
    qpc,         \* per call of query(): where the call stands
    qclient,     \* per call: the client pool.connect gave it (0: none)
    qthrew,      \* per call: client.query threw
    qreleases,   \* per call: how many times it called client.release()
    qresult,     \* per call: what the caller got
    leased,      \* the pool's clients that are checked out
    misuse       \* release() was called on a client that was not checked out

VARIABLES
    tx,          \* per call of executeTransaction: where it stands, the
                 \* statements it issued and how they ended, the first error
                 \* raised, what the caller got, the releases of its client
                 \* and the rows its open transaction has inserted
    stored       \* the committed rows of the tables users and posts

VARIABLES
    dbUsers,     \* the rows of the table users the batch functions read
    dbPosts,     \* the rows of the table posts the batch functions read
    batch        \* the last call of a batch function: its keys and result

VARIABLES
    knownTokens, \* what getUser(token) returns for each token: <<user>>, or
                 \* the empty tuple for null
    answer       \* the last request of a protected resolver: the context
                 \* built for it and what the resolver did

VARIABLES
    declared,    \* the @auth annotations of the schema: the role each object
                 \* type and each field declares ("none": no annotation)
    visited,     \* the annotations the directive has visited
    objectRole,  \* per object type: _requiredAuthRole ("none": not set)
    fieldRole,   \* per field: _requiredAuthRole ("none": not set)
    wrappedFlag, \* per object type: _authFieldsWrapped
    wraps,       \* per field: how many wrappers surround its resolver
    fieldCall    \* the last field resolved for a request and its outcome

VARIABLES
    seedState,   \* the seed script: "idle", "running", "done" or "failed"
    seedLog,     \* the Prisma calls of the seed script that have returned
    seedIds      \* the ids of user1 and user2 as the script received them

VARIABLES
    sqlPosts,    \* the posts table of the PostgreSQL guide
    sqlCalls     \* the updatePost / deletePost calls of the SQL-backed resolvers

VARIABLES
    pgDb,        \* the PostgreSQL database of initDatabase: its two tables
    initCalls    \* the initDatabase calls: where each is, and the count it read

crudVars == <<server, userTable, postTable, userSeq, postSeq, posts, resp,
              created, touched, deleted>>

listenVars == <<occupied, denied, lpc, portIndex, attempted, outcomes, bound,
                closed, log>>

pageVars == <<pagination, allUsers, pgPosts, page, trail>>

poolVars == <<qpc, qclient, qthrew, qreleases, qresult, leased, misuse>>

\* the state of the guides' examples, which the resolvers and the bootstrap
\* of server.js do not touch
txVars == <<tx, stored>>

loaderVars == <<dbUsers, dbPosts, batch>>

authVars == <<knownTokens, answer>>

directiveVars == <<declared, visited, objectRole, fieldRole, wrappedFlag, wraps,
                   fieldCall>>

seedVars == <<seedState, seedLog, seedIds>>

sqlVars == <<sqlPosts, sqlCalls>>

initVars == <<pgDb, initCalls>>

guideVars ==
    <<pageVars, poolVars, txVars, loaderVars, authVars, directiveVars, seedVars,
      sqlVars, initVars>>

\* the state the paginated resolvers do not touch
outsidePagination ==
    <<crudVars, listenVars, poolVars, txVars, loaderVars, authVars, directiveVars,
      seedVars, sqlVars, initVars>>

\* the state the pooled query helper does not touch
outsidePool ==
    <<crudVars, listenVars, pageVars, txVars, loaderVars, authVars, directiveVars,
      seedVars, sqlVars, initVars>>

\* the state executeTransaction does not touch
outsideTransaction ==
    <<crudVars, listenVars, pageVars, poolVars, loaderVars, authVars, directiveVars,
      seedVars, sqlVars, initVars>>

\* the state the protected resolvers do not touch
outsideAuth ==
    <<crudVars, listenVars, pageVars, poolVars, txVars, loaderVars, directiveVars,
      seedVars, sqlVars, initVars>>

\* the state the @auth directive does not touch
outsideDirective ==
    <<crudVars, listenVars, pageVars, poolVars, txVars, loaderVars, authVars,
      seedVars, sqlVars, initVars>>

\* the state the batch functions do not touch
outsideLoaders ==
    <<crudVars, listenVars, pageVars, poolVars, txVars, authVars, directiveVars,
      seedVars, sqlVars, initVars>>

vars == <<crudVars, listenVars, guideVars>>

----------------------------------------------------------------------------
(* Bounds of the model *)

MaxUsers == 1
MaxPosts == 2
MaxRows == 3
BigId == 10
BelowZero == 2
NumCalls == 3
PoolSize == 2
NumTransactions == 2
MaxKeyId == 2
MaxKeys == 2
MaxLoaderPosts == 3
\* calls of the SQL-backed mutations, and posts in their table
NumSqlCalls == 2
\* calls of initDatabase
NumInitCalls == 3
MaxSqlPosts == 2

----------------------------------------------------------------------------
(* JavaScript values *)

Undefined == "undefined"
Null == "null"
\* a JavaScript number n is <<n>>, NaN is the empty tuple
NaN == <<>>
Number(n) == <<n>>

\* an omitted optional argument is <<>>, a supplied one <<v>>
Omitted == <<>>
Given(v) == <<v>>

Str(s) == [t |-> "string", v |-> s]
Num(n) == [t |-> "number", v |-> n]

\* a === b on ids: same type and same value
StrictEq(a, b) == a.t = b.t /\ a.v = b.v

DigitChars == <<"0", "1", "2", "3", "4", "5", "6", "7", "8", "9">>

IsDigit(c) == \E i \in 1..10 : DigitChars[i] = c

DigitVal(c) == (CHOOSE i \in 1..10 : DigitChars[i] = c) - 1

RECURSIVE SerializeID(_)
\* String(n) for an integer n >= 0: what the ID scalar sends to the client for
\* a numeric id
SerializeID(n) ==
    IF n < 10 THEN <<DigitChars[n + 1]>>
    ELSE SerializeID(n \div 10) \o <<DigitChars[(n % 10) + 1]>>

RECURSIVE SkipSpaces(_)
SkipSpaces(s) ==
    IF s # <<>> /\ Head(s) = " " THEN SkipSpaces(Tail(s)) ELSE s

RECURSIVE DigitPrefix(_)
DigitPrefix(s) ==
    IF s # <<>> /\ IsDigit(Head(s)) THEN <<Head(s)>> \o DigitPrefix(Tail(s))
    ELSE <<>>

RECURSIVE DecimalValue(_)
DecimalValue(ds) ==
    IF ds = <<>> THEN 0
    ELSE 10 * DecimalValue(SubSeq(ds, 1, Len(ds) - 1)) + DigitVal(ds[Len(ds)])

\* parseInt(s), radix 10: leading blanks skipped, an optional sign, then the
\* longest run of digits; whatever follows the digits is ignored; NaN when
\* there is no digit.
ParseInt(s) ==
    LET t == SkipSpaces(s)
        neg == t # <<>> /\ Head(t) = "-"
        u == IF t # <<>> /\ Head(t) \in {"-", "+"} THEN Tail(t) ELSE t
        ds == DigitPrefix(u)
    IN  IF ds = <<>> THEN NaN
        ELSE IF neg THEN Number(0 - DecimalValue(ds)) ELSE Number(DecimalValue(ds))

----------------------------------------------------------------------------
(* Inputs of the resolvers *)

\* the ID strings a client sends: the decimal ids, and ids that are not the
\* decimal form of an integer
IdInputs ==
    {SerializeID(n) : n \in 1..(MaxPosts + 1)} \cup {<<"1", "a">>, <<"a">>}

\* the ID strings sent to updatePost and deletePost
MutationIdInputs ==
    {SerializeID(n) : n \in 1..MaxPosts} \cup {<<"a">>}

\* the ID strings sent to the array-backed server: also the ids its createPost
\* hands out
ArrayIdInputs ==
    {SerializeID(n) : n \in 1..(3 + MaxPosts)} \cup {<<"a">>}

\* createPost arguments of the Prisma-backed server, without authorId
CreatePostInputs ==
    { [title |-> "t1", content |-> "c1", summary |-> "s1", published |-> Given(TRUE)],
      [title |-> "t2", content |-> "c2", summary |-> Undefined, published |-> Omitted] }

\* updatePost arguments of the Prisma-backed server, without id
UpdatePostInputs ==
    { [title |-> Undefined, content |-> Undefined, summary |-> Undefined, published |-> Omitted],
      [title |-> "t3", content |-> Undefined, summary |-> Undefined, published |-> Omitted],
      [title |-> Undefined, content |-> "c3", summary |-> Null, published |-> Given(FALSE)] }

\* createPost / updatePost arguments of the array-backed server, without id
ArrayPostInputs ==
    { [title |-> "t1", content |-> "c1", summary |-> "s1", published |-> TRUE,
       createdAt |-> "d1", updatedAt |-> "d2"],
      [title |-> "t2", content |-> "c2", summary |-> Undefined, published |-> FALSE,
       createdAt |-> "d3", updatedAt |-> Undefined] }

----------------------------------------------------------------------------
(* The Prisma client: tables with an autoincrement integer id *)

\* findUnique({ where: { id } }): the row with that id, or null (the empty
\* tuple); no row has the key NaN
FindUnique(table, id) ==
    IF id # NaN /\ \E r \in table : r.id = id[1]
    THEN <<CHOOSE r \in table : r.id = id[1]>>
    ELSE <<>>

\* @default(autoincrement()): the next id of a table, never one handed out
\* before
Autoincrement(seq) == seq + 1

\* the foreign key of Post.authorId
AuthorExists(authorId) == \E u \in userTable : u.id = authorId

\* include: { author: true }
IncludeAuthor(row) == [post |-> row, author |-> FindUnique(userTable, Number(row.authorId))]

----------------------------------------------------------------------------
(* Resolvers of the Prisma-backed server *)

\* Query.user
UserQuery(id) == FindUnique(userTable, ParseInt(id))

\* Query.post
PostQuery(id) ==
    LET found == FindUnique(postTable, ParseInt(id))
    IN  IF found = <<>> THEN <<>> ELSE <<IncludeAuthor(found[1])>>

PublishedOrDefault_True(published) ==
    IF published = Omitted THEN TRUE ELSE published[1]

\* the default of createPost's parameter: published = false
PublishedOrDefault(published) ==
    IF published = Omitted THEN FALSE ELSE published[1]

\* the data object createPost hands to prisma.post.create; an undefined
\* optional column is stored as NULL
CreatePostData(args, authorId) ==
    [title |-> args.title,
     content |-> args.content,
     summary |-> IF args.summary = Undefined THEN Null ELSE args.summary,
     published |-> PublishedOrDefault(args.published),
     authorId |-> authorId]

\* the data object of updatePost built the way createPost builds its own: an
\* omitted summary is stored as NULL
UpdatePostData_SummaryReset(row, args) ==
    [id |-> row.id,
     title |-> IF args.title # Undefined THEN args.title ELSE row.title,
     content |-> IF args.content # Undefined THEN args.content ELSE row.content,
     summary |-> IF args.summary # Undefined THEN args.summary ELSE Null,
     published |-> IF args.published # Omitted THEN args.published[1] ELSE row.published,
     authorId |-> row.authorId]

\* the data object updatePost builds: only the supplied fields
UpdatePostData(row, args) ==
    [id |-> row.id,
     title |-> IF args.title # Undefined THEN args.title ELSE row.title,
     content |-> IF args.content # Undefined THEN args.content ELSE row.content,
     summary |-> IF args.summary # Undefined THEN args.summary ELSE row.summary,
     published |-> IF args.published # Omitted THEN args.published[1] ELSE row.published,
     authorId |-> row.authorId]

WithId(id, data) ==
    [id |-> id, title |-> data.title, content |-> data.content,
     summary |-> data.summary, published |-> data.published,
     authorId |-> data.authorId]

Response(op, arg, status, value) ==
    [op |-> op, arg |-> arg, status |-> status, value |-> value]

NoResponse == Response("none", <<>>, "ok", <<>>)

prismaHist == <<created, touched, deleted, listenVars, guideVars>>

\* Query.user(id); a NaN key is refused or matches nothing
QueryUser(id) ==
    /\ server = "prisma"
    /\ IF ParseInt(id) = NaN
       THEN \E st \in {"ok", "error"} : resp' = Response("user", id, st, <<>>)
       ELSE resp' = Response("user", id, "ok", UserQuery(id))
    /\ UNCHANGED <<server, userTable, postTable, userSeq, postSeq, posts>>
    /\ UNCHANGED prismaHist

\* Query.post(id)
QueryPost(id) ==
    /\ server = "prisma"
    /\ IF ParseInt(id) = NaN
       THEN \E st \in {"ok", "error"} : resp' = Response("post", id, st, <<>>)
       ELSE resp' = Response("post", id, "ok", PostQuery(id))
    /\ UNCHANGED <<server, userTable, postTable, userSeq, postSeq, posts>>
    /\ UNCHANGED prismaHist

\* Mutation.createUser
CreateUser(name, email) ==
    /\ server = "prisma"
    /\ userSeq < MaxUsers
    /\ LET row == [id |-> Autoincrement(userSeq), name |-> name, email |-> email]
       IN  /\ userTable' = userTable \cup {row}
           /\ userSeq' = row.id
           /\ resp' = Response("createUser", <<>>, "ok", <<row>>)
    /\ UNCHANGED <<server, postTable, postSeq, posts>>
    /\ UNCHANGED prismaHist

\* Mutation.createPost: rejected by the foreign key when authorId matches no
\* user
CreatePost(args, authorId) ==
    /\ server = "prisma"
    /\ postSeq < MaxPosts
    /\ IF AuthorExists(authorId)
       THEN LET row == WithId(Autoincrement(postSeq), CreatePostData(args, authorId))
            IN  /\ postTable' = postTable \cup {row}
                /\ postSeq' = row.id
                /\ resp' = Response("createPost", <<>>, "ok", <<IncludeAuthor(row)>>)
                /\ created' = Append(created,
                        [id |-> SerializeID(row.id), args |-> args, authorId |-> authorId])
       ELSE /\ resp' = Response("createPost", <<>>, "error", <<>>)
            /\ UNCHANGED <<postTable, postSeq, created>>
    /\ UNCHANGED <<server, userTable, userSeq, posts, touched, deleted, listenVars, guideVars>>

\* Mutation.updatePost: prisma.post.update throws when no row has the id
UpdatePost(id, args) ==
    /\ server = "prisma"
    /\ LET found == FindUnique(postTable, ParseInt(id))
       IN  IF found # <<>>
           THEN LET row == UpdatePostData(found[1], args)
                IN  /\ postTable' = (postTable \ {found[1]}) \cup {row}
                    /\ resp' = Response("updatePost", id, "ok", <<IncludeAuthor(row)>>)
                    /\ touched' = touched \cup {row.id}
           ELSE /\ resp' = Response("updatePost", id, "error", <<>>)
                /\ UNCHANGED <<postTable, touched>>
    /\ UNCHANGED <<server, userTable, userSeq, postSeq, posts, created, deleted, listenVars, guideVars>>

\* Mutation.deletePost: prisma.post.delete throws when no row has the id
DeletePost(id) ==
    /\ server = "prisma"
    /\ LET found == FindUnique(postTable, ParseInt(id))
       IN  IF found # <<>>
           THEN /\ postTable' = postTable \ {found[1]}
                /\ resp' = Response("deletePost", id, "ok", <<IncludeAuthor(found[1])>>)
                /\ touched' = touched \cup {found[1].id}
                /\ deleted' = deleted \cup {id}
           ELSE /\ resp' = Response("deletePost", id, "error", <<>>)
                /\ UNCHANGED <<postTable, touched, deleted>>
    /\ UNCHANGED <<server, userTable, userSeq, postSeq, posts, created, listenVars, guideVars>>

----------------------------------------------------------------------------
(* The array-backed server *)

\* the initial contents of the array `posts`
SeedPosts ==
    << [id |-> Str(<<"1">>), title |-> "Introduction", content |-> "seed c1",
        summary |-> "seed s1", published |-> TRUE,
        createdAt |-> "2025-03-15", updatedAt |-> "2025-03-16"],
       [id |-> Str(<<"2">>), title |-> "Avantages", content |-> "seed c2",
        summary |-> "seed s2", published |-> TRUE,
        createdAt |-> "2025-03-17", updatedAt |-> Null],
       [id |-> Str(<<"3">>), title |-> "Structurer", content |-> "seed c3",
        summary |-> "seed s3", published |-> TRUE,
        createdAt |-> "2025-03-18", updatedAt |-> "2025-03-18"] >>

\* the object literal of createPost / updatePost
PostObject(id, args) ==
    [id |-> id, title |-> args.title, content |-> args.content,
     summary |-> args.summary, published |-> args.published,
     createdAt |-> args.createdAt, updatedAt |-> args.updatedAt]

\* the id createPost gives a new post: posts.length + 1, a number
NewPostId(list) == Num(Len(list) + 1)

\* post => post.id === id, for an id argument (always a string)
IdMatches(post, id) == StrictEq(post.id, Str(id))

\* posts.findIndex(post => post.id === id): 0-based, -1 when there is none
FindIndex(list, id) ==
    IF \E i \in 1..Len(list) : IdMatches(list[i], id)
    THEN (CHOOSE i \in 1..Len(list) :
            /\ IdMatches(list[i], id)
            /\ \A j \in 1..(i - 1) : ~IdMatches(list[j], id)) - 1
    ELSE -1

\* posts.find(post => post.id === id): <<post>>, or <<>> for undefined
Find(list, id) ==
    LET index == FindIndex(list, id)
    IN  IF index # -1 THEN <<list[index + 1]>> ELSE <<>>

Splice_Nothing(list, index) == list

\* posts.splice(index, 1)
Splice(list, index) ==
    SubSeq(list, 1, index) \o SubSeq(list, index + 2, Len(list))

\* what the client receives as the id of a post
ClientId(id) == IF id.t = "number" THEN SerializeID(id.v) ELSE id.v

\* Query.postID
PostID(id) == Find(posts, id)

prismaState == <<userTable, postTable, userSeq, postSeq, listenVars, guideVars>>

\* Query.postID(id)
ArrayPostID(id) ==
    /\ server = "array"
    /\ resp' = Response("postID", id, "ok", PostID(id))
    /\ UNCHANGED <<server, posts, created, touched, deleted>>
    /\ UNCHANGED prismaState

\* Mutation.createPost
ArrayCreatePost(args) ==
    /\ server = "array"
    /\ Len(created) < MaxPosts
    /\ LET newPost == PostObject(NewPostId(posts), args)
       IN  /\ posts' = Append(posts, newPost)
           /\ resp' = Response("createPost", <<>>, "ok", <<newPost>>)
           /\ created' = Append(created, [id |-> ClientId(newPost.id), args |-> args])
    /\ UNCHANGED <<server, touched, deleted>>
    /\ UNCHANGED prismaState

\* Mutation.updatePost
ArrayUpdatePost(id, args) ==
    /\ server = "array"
    /\ LET index == FindIndex(posts, id)
       IN  IF index # -1
           THEN LET updatedPost == PostObject(Str(id), args)
                IN  /\ posts' = [posts EXCEPT ![index + 1] = updatedPost]
                    /\ resp' = Response("updatePost", id, "ok", <<updatedPost>>)
           ELSE /\ resp' = Response("updatePost", id, "ok", <<>>)
                /\ UNCHANGED posts
    /\ UNCHANGED <<server, created, touched, deleted>>
    /\ UNCHANGED prismaState

\* Mutation.deletePost
ArrayDeletePost(id) ==
    /\ server = "array"
    /\ LET index == FindIndex(posts, id)
       IN  IF index # -1
           THEN /\ posts' = Splice(posts, index)
                /\ resp' = Response("deletePost", id, "ok", <<posts[index + 1]>>)
                /\ deleted' = deleted \cup {id}
           ELSE /\ resp' = Response("deletePost", id, "ok", <<>>)
                /\ UNCHANGED <<posts, deleted>>
    /\ UNCHANGED <<server, created, touched>>
    /\ UNCHANGED prismaState

----------------------------------------------------------------------------
(* The two servers' resolvers as a state machine *)

\* no paginated request is in play
\* no client is following cursors
NoTrail == [state |-> "none", first |-> <<>>, seen |-> <<>>]

NoPagination ==
    /\ pagination = "none"
    /\ allUsers = <<>>
    /\ pgPosts = {}
    /\ page = [kind |-> "none"]
    /\ trail = NoTrail

\* the concurrent calls of query() and the clients of the pool
Calls == 1..NumCalls
Clients == 1..PoolSize

\* no call of the pooled query helper
NoPool ==
    /\ qpc = [c \in Calls |-> "ready"]
    /\ qclient = [c \in Calls |-> 0]
    /\ qthrew = [c \in Calls |-> FALSE]
    /\ qreleases = [c \in Calls |-> 0]
    /\ qresult = [c \in Calls |-> "none"]
    /\ leased = {}
    /\ misuse = FALSE

\* the concurrent calls of createUserWithPost
Transactions == 1..NumTransactions

\* a call of executeTransaction that has not started
NoCall ==
    [pc |-> "ready", log |-> <<>>, outcomes |-> <<>>, failed |-> "none",
     result |-> "none", held |-> FALSE, releases |-> 0, pending |-> {}]

\* no call of executeTransaction, empty tables
NoTransaction ==
    /\ tx = [c \in Transactions |-> NoCall]
    /\ stored = {}

\* no batch function called, empty tables
NoLoaders ==
    /\ dbUsers = <<>>
    /\ dbPosts = <<>>
    /\ batch = [kind |-> "none"]

\* the tokens a request may carry; "" is also what an absent header gives
Tokens == {"", "user-token", "admin-token", "stale-token"}

\* no protected resolver called, no token known
NoAuth ==
    /\ knownTokens = [token \in Tokens |-> <<>>]
    /\ answer = [kind |-> "none"]

\* the object types of a schema and the fields of each
DirectiveTypes == {"User", "Query"}
DirectiveFields == {"f1", "f2"}

\* a schema before the directive visits it: no role set, nothing wrapped
Unvisited ==
    /\ visited = {}
    /\ objectRole = [T \in DirectiveTypes |-> "none"]
    /\ fieldRole = [T \in DirectiveTypes |-> [f \in DirectiveFields |-> "none"]]
    /\ wrappedFlag = [T \in DirectiveTypes |-> FALSE]
    /\ wraps = [T \in DirectiveTypes |-> [f \in DirectiveFields |-> 0]]
    /\ fieldCall = [kind |-> "none"]

\* a schema without @auth
NoDirective ==
    /\ declared = [object |-> [T \in DirectiveTypes |-> "none"],
                   field |-> [T \in DirectiveTypes |-> [f \in DirectiveFields |-> "none"]]]
    /\ Unvisited

\* the seed script has not been run
NoSeed ==
    /\ seedState = "idle"
    /\ seedLog = <<>>
    /\ seedIds = <<>>

\* no call of the SQL-backed resolvers and an empty posts table
NoSql ==
    /\ sqlPosts = {}
    /\ sqlCalls = <<>>

\* a database without tables and no initDatabase call
NoInitDatabase ==
    /\ pgDb = [hasUsers |-> FALSE, hasPosts |-> FALSE, users |-> <<>>, posts |-> <<>>]
    /\ initCalls = <<>>

\* the parts of the model a specification leaves alone stay as they start
Quiet(busy) ==
    /\ "pagination" \notin busy => NoPagination
    /\ "pool" \notin busy => NoPool
    /\ "transaction" \notin busy => NoTransaction
    /\ "loaders" \notin busy => NoLoaders
    /\ "auth" \notin busy => NoAuth
    /\ "directive" \notin busy => NoDirective
    /\ "seed" \notin busy => NoSeed
    /\ "sql" \notin busy => NoSql
    /\ "initDatabase" \notin busy => NoInitDatabase

\* the resolvers' data before any request
InitData ==
    /\ userTable = {}
    /\ postTable = {}
    /\ userSeq = 0
    /\ postSeq = 0
    /\ posts = IF server = "array" THEN SeedPosts ELSE <<>>
    /\ resp = NoResponse
    /\ created = <<>>
    /\ touched = {}
    /\ deleted = {}

\* requests are served once the bootstrap listens on port 4000
InitCrud ==
    /\ server \in {"prisma", "array"}
    /\ InitData
    /\ occupied = {}
    /\ denied = {}
    /\ lpc = "listening"
    /\ portIndex = 0
    /\ attempted = <<4000>>
    /\ outcomes = <<"listening">>
    /\ bound = {4000}
    /\ closed = {}
    /\ log = <<[msg |-> "schema", port |-> 0], [msg |-> "ready", port |-> 4000]>>
    /\ Quiet({})

NextCrud ==
    \/ \E id \in IdInputs : QueryUser(id)
    \/ \E id \in IdInputs : QueryPost(id)
    \/ \E name \in {"Guigui"}, email \in {"guigui@example.com"} : CreateUser(name, email)
    \/ \E args \in CreatePostInputs, authorId \in 1..(MaxUsers + 1) : CreatePost(args, authorId)
    \/ \E id \in MutationIdInputs, args \in UpdatePostInputs : UpdatePost(id, args)
    \/ \E id \in MutationIdInputs : DeletePost(id)
    \/ \E id \in ArrayIdInputs : ArrayPostID(id)
    \/ \E args \in ArrayPostInputs : ArrayCreatePost(args)
    \/ \E id \in ArrayIdInputs, args \in ArrayPostInputs : ArrayUpdatePost(id, args)
    \/ \E id \in ArrayIdInputs : ArrayDeletePost(id)

SpecCrud == InitCrud /\ [][NextCrud]_vars

----------------------------------------------------------------------------
(* Claims on the resolvers *)

\* the fields of a Prisma post row equal the values submitted to createPost
SameAsSubmitted(row, c) ==
    /\ row.title = c.args.title
    /\ row.content = c.args.content
    /\ row.summary = (IF c.args.summary = Undefined THEN Null ELSE c.args.summary)
    /\ row.published = (IF c.args.published = Omitted THEN FALSE ELSE c.args.published[1])
    /\ row.authorId = c.authorId

\* C1: on the Prisma-backed server, post(id) with the id a successful
\* createPost returned yields a post with the submitted title, content,
\* summary, published (false when omitted) and authorId, as long as no
\* updatePost or deletePost hit that post in between.
C1_CreateThenPost ==
    server = "prisma" =>
        \A i \in 1..Len(created) :
            (ParseInt(created[i].id)[1] \notin touched) =>
                /\ PostQuery(created[i].id) # <<>>
                /\ SameAsSubmitted(PostQuery(created[i].id)[1].post, created[i])
                /\ (resp.op = "post" /\ resp.arg = created[i].id) =>
                        /\ resp.status = "ok"
                        /\ resp.value # <<>>
                        /\ SameAsSubmitted(resp.value[1].post, created[i])

\* post(id) answered for a created, untouched post whose published was omitted
C1_Witness ==
    /\ server = "prisma"
    /\ resp.op = "post"
    /\ \E i \in 1..Len(created) :
        /\ resp.arg = created[i].id
        /\ created[i].args.published = Omitted
        /\ ParseInt(created[i].id)[1] \notin touched
    /\ resp.value # <<>>
    /\ touched # {}

\* the fields of an array post equal the values submitted to createPost
SameAsSubmittedArray(post, c) ==
    /\ post.title = c.args.title
    /\ post.content = c.args.content
    /\ post.summary = c.args.summary
    /\ post.published = c.args.published
    /\ post.createdAt = c.args.createdAt
    /\ post.updatedAt = c.args.updatedAt

\* C2: on the array-backed server, every post added by createPost is found
\* by postID(id) with the id createPost returned (as the client holds it, an
\* ID string), carrying the submitted fields.
C2_ArrayCreateThenPostID ==
    server = "array" =>
        \A i \in 1..Len(created) :
            (resp.op = "postID" /\ resp.arg = created[i].id) =>
                /\ resp.value # <<>>
                /\ SameAsSubmittedArray(resp.value[1], created[i])

\* C3: once deletePost(id) has succeeded, every later lookup of that id is
\* empty, on both servers, whatever mutations follow.
C3_DeletedStaysGone ==
    \A id \in deleted :
        /\ server = "prisma" => PostQuery(id) = <<>>
        /\ server = "array" => PostID(id) = <<>>
        /\ (resp.op \in {"post", "postID"} /\ resp.arg = id) =>
                (resp.status = "ok" /\ resp.value = <<>>)

\* a lookup of a deleted id answered after a later createPost, other posts
\* being stored
C3_Witness ==
    /\ server = "prisma"
    /\ resp.op = "post"
    /\ resp.arg \in deleted
    /\ postTable # {}
    /\ \E i \in 1..Len(created) : ParseInt(created[i].id)[1] > ParseInt(resp.arg)[1]

\* the Prisma-backed server is up
InitUpdate ==
    /\ InitCrud
    /\ server = "prisma"

\* the Prisma-backed server answering createUser, createPost and updatePost
NextUpdate ==
    \/ \E name \in {"Guigui"}, email \in {"guigui@example.com"} : CreateUser(name, email)
    \/ \E args \in CreatePostInputs, authorId \in 1..MaxUsers : CreatePost(args, authorId)
    \/ \E id \in MutationIdInputs, args \in UpdatePostInputs : UpdatePost(id, args)

SpecUpdate == InitUpdate /\ [][NextUpdate]_vars

\* what an updatePost call may have done to the post it found: each of the four
\* fields holds the supplied value, or its old value when none was supplied,
\* and id and authorId are the old ones
OnlySuppliedChanged(old, new, args) ==
    /\ new.id = old.id
    /\ new.authorId = old.authorId
    /\ new.title = IF args.title = Undefined THEN old.title ELSE args.title
    /\ new.content = IF args.content = Undefined THEN old.content ELSE args.content
    /\ new.summary = IF args.summary = Undefined THEN old.summary ELSE args.summary
    /\ new.published = IF args.published = Omitted THEN old.published ELSE args.published[1]

SuppliesNothing(args) ==
    /\ args.title = Undefined
    /\ args.content = Undefined
    /\ args.summary = Undefined
    /\ args.published = Omitted

C4_LookupMatchesRequestedId ==
    (server = "prisma" /\ resp.op \in {"user", "post"} /\ resp.status = "ok") =>
        LET table == IF resp.op = "user" THEN userTable ELSE postTable
            ids == {SerializeID(r.id) : r \in table}
            got == IF resp.value = <<>> THEN <<>>
                   ELSE IF resp.op = "user" THEN <<resp.value[1].id>>
                   ELSE <<resp.value[1].post.id>>
        IN  /\ resp.arg \in ids => (got # <<>> /\ SerializeID(got[1]) = resp.arg)
            /\ resp.arg \notin ids => got = <<>>
            /\ got # <<>> => SerializeID(got[1]) = resp.arg

----------------------------------------------------------------------------
(* The HTTP bootstrap: startServer and startListening *)

\* the ports startListening tries, in this order
ports == <<4000, 4001, 4002, 4003, 5000>>

\* the only port of the array-backed server
ArrayPort == 4000

Msg(msg, port) == [msg |-> msg, port |-> port]

\* how the bind of a port ends in this environment
BindOutcome(port) ==
    IF port \in occupied THEN "EADDRINUSE"
    ELSE IF port \in denied THEN "EACCES"
    ELSE "listening"

\* a guard that gives up one port early
AllPortsTried_OneEarly(i) == i >= Len(ports) - 1

\* the guard of startListening: portIndex >= ports.length
AllPortsTried(i) == i >= Len(ports)

LogAllBusy_Silent(l) == l

\* console.error("Tous les ports sont occupés ...")
LogAllBusy(l) == Append(l, Msg("allBusy", 0))

AdvancesOnError_Any(code) == TRUE

AdvancesOnError_Never(code) == FALSE

\* the test of the 'error' listener: err.code === 'EADDRINUSE'
AdvancesOnError(code) == code = "EADDRINUSE"

\* startListening(i), called with the console as `l`: the final message when
\* the list is exhausted, else app.listen(ports[i]) and the two listeners
StartListening(i, l) ==
    /\ portIndex' = i
    /\ IF AllPortsTried(i)
       THEN /\ log' = LogAllBusy(l)
            /\ lpc' = "exhausted"
            /\ UNCHANGED attempted
       ELSE /\ log' = l
            /\ lpc' = "binding"
            /\ attempted' = Append(attempted, ports[i + 1])

\* startServer of the Prisma-backed server, server.start() and
\* applyMiddleware succeeding: then startListening()
StartServer ==
    /\ server = "prisma"
    /\ lpc = "boot"
    /\ StartListening(0, Append(log, Msg("schema", 0)))
    /\ UNCHANGED <<occupied, denied, outcomes, bound, closed>>
    /\ UNCHANGED <<crudVars, guideVars>>

\* startServer without its try / catch: the promise of the unawaited call
\* rejects and nothing handles it
StartServerThrows_Uncaught ==
    /\ lpc = "boot"
    /\ lpc' = "crashed"
    /\ UNCHANGED <<occupied, denied, portIndex, attempted, outcomes, bound, closed, log>>
    /\ UNCHANGED <<crudVars, guideVars>>

\* startServer, server.start() or applyMiddleware throwing: caught and logged
StartServerThrows ==
    /\ lpc = "boot"
    /\ lpc' = "startFailed"
    /\ log' = Append(log, Msg("startError", 0))
    /\ UNCHANGED <<occupied, denied, portIndex, attempted, outcomes, bound, closed>>
    /\ UNCHANGED <<crudVars, guideVars>>

\* the callback of app.listen: the port is bound
Listening ==
    /\ lpc = "binding"
    /\ LET port == attempted[Len(attempted)]
       IN  /\ BindOutcome(port) = "listening"
           /\ bound' = bound \cup {port}
           /\ outcomes' = Append(outcomes, "listening")
           /\ log' = Append(log, Msg("ready", port))
    /\ lpc' = "listening"
    /\ UNCHANGED <<occupied, denied, portIndex, attempted, closed>>
    /\ UNCHANGED <<crudVars, guideVars>>

\* the 'error' listener of the Prisma-backed server
OnError ==
    /\ server = "prisma"
    /\ lpc = "binding"
    /\ LET port == attempted[Len(attempted)]
           code == BindOutcome(port)
       IN  /\ code # "listening"
           /\ outcomes' = Append(outcomes, code)
           /\ IF AdvancesOnError(code)
              THEN /\ closed' = closed \cup {port}
                   /\ StartListening(portIndex + 1, Append(log, Msg("portBusy", port)))
              ELSE /\ log' = Append(log, Msg("listenError", port))
                   /\ lpc' = "failed"
                   /\ UNCHANGED <<portIndex, attempted, closed>>
    /\ UNCHANGED <<occupied, denied, bound>>
    /\ UNCHANGED <<crudVars, guideVars>>

\* startServer of the array-backed server: app.listen(4000) and nothing else
ArrayStartServer ==
    /\ server = "array"
    /\ lpc = "boot"
    /\ log' = Append(log, Msg("schema", 0))
    /\ attempted' = Append(attempted, ArrayPort)
    /\ lpc' = "binding"
    /\ UNCHANGED <<occupied, denied, portIndex, outcomes, bound, closed>>
    /\ UNCHANGED <<crudVars, guideVars>>

\* the array-backed server registers no 'error' listener: the event is
\* thrown as an uncaught exception and ends the process
ArrayUnhandledError ==
    /\ server = "array"
    /\ lpc = "binding"
    /\ LET code == BindOutcome(attempted[Len(attempted)])
       IN  /\ code # "listening"
           /\ outcomes' = Append(outcomes, code)
    /\ lpc' = "crashed"
    /\ UNCHANGED <<occupied, denied, portIndex, attempted, bound, closed, log>>
    /\ UNCHANGED <<crudVars, guideVars>>

PortSet == {ports[i] : i \in 1..Len(ports)}

InitListen ==
    /\ server \in {"prisma", "array"}
    /\ InitData
    /\ occupied \in SUBSET PortSet
    /\ denied \in SUBSET (PortSet \ occupied)
    /\ lpc = "boot"
    /\ portIndex = 0
    /\ attempted = <<>>
    /\ outcomes = <<>>
    /\ bound = {}
    /\ closed = {}
    /\ log = <<>>
    /\ Quiet({})

NextListen ==
    \/ StartServer
    \/ StartServerThrows
    \/ Listening
    \/ OnError
    \/ ArrayStartServer
    \/ ArrayUnhandledError

SpecListen == InitListen /\ [][NextListen]_vars

\* the event loop delivers the pending 'listening' or 'error' event
SpecListenFair == SpecListen /\ WF_vars(NextListen)

----------------------------------------------------------------------------
(* Claims on the bootstrap *)

\* the bootstrap has nothing pending: it listens, gave up or stopped
Settled == lpc \in {"listening", "exhausted", "failed", "crashed"}

\* indexes (1-based) of the listed ports no other process holds
FreeIndexes == {i \in 1..Len(ports) : ports[i] \notin occupied}

FirstFreeIndex == CHOOSE i \in FreeIndexes : \A j \in FreeIndexes : i <= j

Count(l, m) == Cardinality({k \in 1..Len(l) : l[k].msg = m})

\* C5: startListening attempts the ports in the listed order; the port at
\* index i+1 is attempted only after the attempt at index i failed with
\* EADDRINUSE; no port is attempted twice and none outside the list.
C5_PortsInOrder ==
    server = "prisma" =>
        /\ Len(attempted) <= Len(ports)
        /\ \A k \in 1..Len(attempted) : attempted[k] = ports[k]
        /\ \A k \in 1..Len(attempted) : \A j \in 1..(k - 1) : attempted[j] # attempted[k]
        /\ \A k \in 2..Len(attempted) :
            /\ Len(outcomes) >= k - 1
            /\ outcomes[k - 1] = "EADDRINUSE"

\* the fifth port was reached and bound after four conflicts
C5_Witness ==
    /\ server = "prisma"
    /\ attempted = ports
    /\ lpc = "listening"
    /\ outcomes[Len(outcomes)] = "listening"

\* C6 as claimed: once the bootstrap has settled, the server listens on the
\* first listed port whose bind does not conflict, and no conflict crashed it.
C6_ListensOnFirstNonConflicting ==
    (server = "prisma" /\ Settled) =>
        /\ lpc # "crashed"
        /\ FreeIndexes # {} => bound = {ports[FirstFreeIndex]}

\* every conflict met so far was answered by the 'error' listener: logged,
\* the httpServer closed, and the process alive
ConflictsHandled ==
    /\ lpc # "crashed"
    /\ \A k \in 1..Len(outcomes) :
        outcomes[k] = "EADDRINUSE" =>
            /\ attempted[k] \in closed
            /\ \E n \in 1..Len(log) : log[n] = Msg("portBusy", attempted[k])

\* C6, amended: the bootstrap settles; then the server listens on the first
\* listed port whose bind does not conflict when that bind succeeds, and on
\* no port when it fails with another error; no conflict crashes the process.
C6_ListensOnFirstNonConflictingThatBinds ==
    /\ [](server = "prisma" =>
            /\ ConflictsHandled
            /\ (Settled /\ FreeIndexes # {}) =>
                    IF ports[FirstFreeIndex] \in denied
                    THEN bound = {} /\ lpc = "failed"
                    ELSE bound = {ports[FirstFreeIndex]} /\ lpc = "listening")
    /\ ((server = "prisma" /\ lpc = "binding") ~> (server = "prisma" /\ Settled))

\* port 4000 conflicted and the server listens on the next port
C6_Witness ==
    /\ server = "prisma"
    /\ outcomes = <<"EADDRINUSE", "listening">>
    /\ bound = {ports[2]}
    /\ lpc = "listening"

\* every listed port failed with EADDRINUSE
AllConflict ==
    /\ Len(outcomes) = Len(ports)
    /\ \A k \in 1..Len(outcomes) : outcomes[k] = "EADDRINUSE"

\* C7: when all five ports fail with EADDRINUSE the final message is logged
\* exactly once, no further bind is attempted, and no port is listened on.
C7_AllPortsBusy ==
    /\ [](AllConflict =>
            /\ lpc = "exhausted"
            /\ Count(log, "allBusy") = 1
            /\ Len(attempted) = Len(ports)
            /\ bound = {})
    /\ [](Count(log, "allBusy") <= 1)
    /\ [][AllConflict => (attempted' = attempted /\ bound' = bound /\ log' = log)]_vars

\* the list is exhausted
C7_Witness ==
    /\ lpc = "exhausted"
    /\ AllConflict
    /\ attempted = ports

\* C8: the array-backed bootstrap retries too: with port 4000 occupied the
\* server binds to a next port and the conflict does not crash the process.
C8_ArrayRetriesPorts ==
    (server = "array" /\ ArrayPort \in occupied /\ Settled) =>
        /\ lpc # "crashed"
        /\ bound # {}

\* C20: when ApolloServer's start or the middleware setup throws, startServer
\* catches and logs the error: the call ends without a rejection (the process
\* is not crashed), the log holds the startup error and nothing else, no port
\* bind was or is attempted, and nothing of the bootstrap runs afterwards.
C20_StartupFailureCaught ==
    /\ []((server = "prisma" /\ lpc = "startFailed") =>
            /\ log = <<Msg("startError", 0)>>
            /\ attempted = <<>>
            /\ outcomes = <<>>
            /\ bound = {})
    /\ [][(server = "prisma" /\ lpc = "boot") => lpc' \in {"binding", "startFailed"}]_vars
    /\ [][~(server = "prisma" /\ lpc = "startFailed")]_vars

\* the startup threw although port 4000 was free
C20_Witness ==
    /\ server = "prisma"
    /\ lpc = "startFailed"
    /\ occupied = {}
    /\ denied = {}
    /\ Count(log, "startError") = 1

\* the listen attempt made last failed with an error that is no bind conflict
NonConflictError ==
    /\ outcomes # <<>>
    /\ outcomes[Len(outcomes)] \notin {"EADDRINUSE", "listening"}

\* C22: startListening makes a further attempt only after a bind conflict; when
\* a listen attempt fails with another error code, that error is logged, the
\* failed attempt stays the last one, nothing of the bootstrap runs afterwards
\* and the server listens on no port.
C22_AdvancesOnlyOnConflict ==
    /\ []((server = "prisma" /\ NonConflictError) =>
            /\ lpc = "failed"
            /\ Len(attempted) = Len(outcomes)
            /\ log[Len(log)] = Msg("listenError", attempted[Len(attempted)])
            /\ Count(log, "listenError") = 1
            /\ bound = {})
    /\ [][(server = "prisma" /\ attempted # <<>> /\ attempted' # attempted) =>
              /\ Len(outcomes') = Len(attempted)
              /\ outcomes'[Len(outcomes')] = "EADDRINUSE"]_vars
    /\ [][~(server = "prisma" /\ NonConflictError)]_vars

\* port 4000 conflicted, port 4001 failed with EACCES, and port 4002 was free
C22_Witness ==
    /\ server = "prisma"
    /\ outcomes = <<"EADDRINUSE", "EACCES">>
    /\ attempted = <<ports[1], ports[2]>>
    /\ ports[3] \notin occupied \cup denied
    /\ lpc = "failed"

\* startListening has ended with the server listening on exactly one port
EndsListening ==
    /\ lpc = "listening"
    /\ Cardinality(bound) = 1
    /\ bound = {attempted[Len(attempted)]}
    /\ Count(log, "ready") = 1

\* startListening has ended with the 'all ports occupied' message, every
\* listed port having conflicted
EndsAllBusy ==
    /\ lpc = "exhausted"
    /\ Count(log, "allBusy") = 1
    /\ AllConflict
    /\ bound = {}

\* startListening has ended with a logged error that is no bind conflict
EndsOnError ==
    /\ lpc = "failed"
    /\ Count(log, "listenError") = 1
    /\ NonConflictError
    /\ bound = {}

\* exactly one of the three holds
OneOutcome ==
    /\ EndsListening \/ EndsAllBusy \/ EndsOnError
    /\ Count(log, "ready") + Count(log, "allBusy") + Count(log, "listenError") = 1

\* C27: every listen attempt ending in 'listening' or in an error,
\* startListening makes at most five bind attempts and ends, and when it has
\* ended exactly one of three holds: the server listens on exactly one port,
\* the 'all ports occupied' message is logged, or a non-conflict error is
\* logged; nothing runs afterwards, and the server never listens on two ports.
C27_ListeningTerminates ==
    /\ [](server = "prisma" =>
            /\ Len(attempted) <= 5
            /\ Cardinality(bound) <= 1
            /\ Settled => OneOutcome
            /\ ~Settled =>
                  Count(log, "ready") + Count(log, "allBusy") + Count(log, "listenError") = 0)
    /\ [][~(server = "prisma" /\ Settled)]_vars
    /\ (server = "prisma" /\ lpc = "binding") ~> (server = "prisma" /\ Settled)

\* three conflicts, then the server listens on the fourth port
C27_Witness ==
    /\ server = "prisma"
    /\ outcomes = <<"EADDRINUSE", "EADDRINUSE", "EADDRINUSE", "listening">>
    /\ EndsListening
    /\ bound = {ports[4]}

----------------------------------------------------------------------------
(* Strings, bytes and base64, as Buffer computes them *)

Base64Alphabet ==
    <<"A", "B", "C", "D", "E", "F", "G", "H", "I", "J", "K", "L", "M", "N", "O", "P",
       "Q", "R", "S", "T", "U", "V", "W", "X", "Y", "Z", "a", "b", "c", "d", "e", "f",
       "g", "h", "i", "j", "k", "l", "m", "n", "o", "p", "q", "r", "s", "t", "u", "v",
       "w", "x", "y", "z", "0", "1", "2", "3", "4", "5", "6", "7", "8", "9", "+", "/">>

\* the byte of a character of an id string (utf8 of an ASCII character)
CharCode(c) ==
    IF IsDigit(c) THEN 48 + DigitVal(c)
    ELSE IF c = " " THEN 32
    ELSE IF c = "+" THEN 43
    ELSE IF c = "-" THEN 45
    ELSE 63

\* toString('ascii') of one byte; a character that is neither a digit, a
\* blank nor a sign reads "?"
AsciiChar(b) ==
    LET a == b % 128
    IN  IF a >= 48 /\ a <= 57 THEN DigitChars[a - 47]
        ELSE IF a = 32 THEN " "
        ELSE IF a = 43 THEN "+"
        ELSE IF a = 45 THEN "-"
        ELSE "?"

\* Buffer.from(string): the bytes of the string
Bytes(str) == [i \in 1..Len(str) |-> CharCode(str[i])]

\* buffer.toString('ascii')
AsciiString(bytes) == [i \in 1..Len(bytes) |-> AsciiChar(bytes[i])]

RECURSIVE Base64Encode(_)
\* buffer.toString('base64')
Base64Encode(bytes) ==
    IF bytes = <<>> THEN <<>>
    ELSE IF Len(bytes) = 1 THEN
        << Base64Alphabet[(bytes[1] \div 4) + 1],
           Base64Alphabet[((bytes[1] % 4) * 16) + 1], "=", "=" >>
    ELSE IF Len(bytes) = 2 THEN
        << Base64Alphabet[(bytes[1] \div 4) + 1],
           Base64Alphabet[((bytes[1] % 4) * 16) + (bytes[2] \div 16) + 1],
           Base64Alphabet[((bytes[2] % 16) * 4) + 1], "=" >>
    ELSE
        << Base64Alphabet[(bytes[1] \div 4) + 1],
           Base64Alphabet[((bytes[1] % 4) * 16) + (bytes[2] \div 16) + 1],
           Base64Alphabet[((bytes[2] % 16) * 4) + (bytes[3] \div 64) + 1],
           Base64Alphabet[(bytes[3] % 64) + 1] >>
            \o Base64Encode(SubSeq(bytes, 4, Len(bytes)))

IsBase64Char(c) == \E i \in 1..64 : Base64Alphabet[i] = c

Sextet(c) == (CHOOSE i \in 1..64 : Base64Alphabet[i] = c) - 1

RECURSIVE Sextets(_)
\* the 6-bit values of a base64 string: decoding stops at the first "=" and
\* skips every character outside the alphabet
Sextets(str) ==
    IF str = <<>> \/ Head(str) = "=" THEN <<>>
    ELSE IF IsBase64Char(Head(str)) THEN <<Sextet(Head(str))>> \o Sextets(Tail(str))
    ELSE Sextets(Tail(str))

RECURSIVE SextetsToBytes(_)
SextetsToBytes(v) ==
    IF Len(v) < 2 THEN <<>>
    ELSE IF Len(v) = 2 THEN << (v[1] * 4) + (v[2] \div 16) >>
    ELSE IF Len(v) = 3 THEN
        << (v[1] * 4) + (v[2] \div 16), ((v[2] % 16) * 16) + (v[3] \div 4) >>
    ELSE
        << (v[1] * 4) + (v[2] \div 16), ((v[2] % 16) * 16) + (v[3] \div 4),
           ((v[3] % 4) * 64) + v[4] >>
            \o SextetsToBytes(SubSeq(v, 5, Len(v)))

\* Buffer.from(string, 'base64')
Base64Decode(str) == SextetsToBytes(Sextets(str))

\* the value PostgreSQL reads from a text parameter compared with an integer
\* column: blanks, an optional sign and digits; anything else is refused (NaN
\* here stands for the error "invalid input syntax for type integer")
PgInteger(str) ==
    LET t == SkipSpaces(str)
        neg == t # <<>> /\ Head(t) = "-"
        u == IF t # <<>> /\ Head(t) \in {"-", "+"} THEN Tail(t) ELSE t
        ds == DigitPrefix(u)
        rest == SubSeq(u, Len(ds) + 1, Len(u))
    IN  IF ds = <<>> \/ SkipSpaces(rest) # <<>> THEN NaN
        ELSE IF neg THEN Number(0 - DecimalValue(ds)) ELSE Number(DecimalValue(ds))

----------------------------------------------------------------------------
(* Cursor pagination *)

\* first = 10, the default page size of both resolvers
UsersDefaultFirst == 10
PostsDefaultFirst == 10

\* if (after): a supplied, non-empty string
Truthy(after) == after # Omitted /\ after[1] # <<>>

\* the position a slice bound names: a negative bound counts from the end,
\* and every bound is clamped to the list
SliceBound(k, len) ==
    IF k < 0 THEN (IF len + k < 0 THEN 0 ELSE len + k)
    ELSE IF k < len THEN k ELSE len

\* list.slice(start, end)
Slice(list, start, end) ==
    LET from == SliceBound(start, Len(list))
        to == SliceBound(end, Len(list))
    IN  IF from < to THEN SubSeq(list, from + 1, to) ELSE <<>>

\* allUsers.findIndex(user => user.id === after): 0-based, -1 when none
FindUserIndex(list, after) ==
    IF \E i \in 1..Len(list) : list[i].id = after
    THEN (CHOOSE i \in 1..Len(list) :
            /\ list[i].id = after
            /\ \A j \in 1..(i - 1) : list[j].id # after) - 1
    ELSE -1

\* a cursor that names no user puts the page behind the last user
AfterIndex_PastEnd(list, after) ==
    IF ~Truthy(after) THEN 0
    ELSE IF FindUserIndex(list, after[1]) # -1 THEN FindUserIndex(list, after[1]) + 1
    ELSE Len(list)

\* the index after which the users page starts
AfterIndex(list, after) ==
    IF Truthy(after) /\ FindUserIndex(list, after[1]) # -1
    THEN FindUserIndex(list, after[1]) + 1
    ELSE 0

\* edges of the users page: the cursor is the user's id
UserEdges(slicedUsers) ==
    [i \in 1..Len(slicedUsers) |->
        [node |-> slicedUsers[i], cursor |-> slicedUsers[i].id]]

\* a hasNextPage that forgets where the page starts
UsersHasNextPage_IgnoresCursor(list, afterIndex, first) == Len(list) > first

\* allUsers.length > afterIndex + first
UsersHasNextPage(list, afterIndex, first) == Len(list) > afterIndex + first

\* an endCursor taken from the first edge of the page
EndCursor_First(edges) ==
    IF Len(edges) > 0 THEN <<edges[1].cursor>> ELSE <<>>

\* pageInfo.endCursor: the last edge's cursor, or null (the empty tuple)
EndCursor(edges) ==
    IF Len(edges) > 0 THEN <<edges[Len(edges)].cursor>> ELSE <<>>

PageResult(first, after, edges, hasNextPage) ==
    [kind |-> "ok", first |-> first, after |-> after, edges |-> edges,
     hasNextPage |-> hasNextPage, endCursor |-> EndCursor(edges)]

PageError(first, after) == [kind |-> "error", first |-> first, after |-> after]

\* resolvers.Query.users of the good-practice guide
UsersPage(first, after) ==
    LET n == IF first = Omitted THEN UsersDefaultFirst ELSE first[1]
        afterIndex == AfterIndex(allUsers, after)
        slicedUsers == Slice(allUsers, afterIndex, afterIndex + n)
    IN  PageResult(first, after, UserEdges(slicedUsers),
                   UsersHasNextPage(allUsers, afterIndex, n))

RECURSIVE OrderById(_)
\* ORDER BY id
OrderById(rows) ==
    IF rows = {} THEN <<>>
    ELSE LET least == CHOOSE r \in rows : \A q \in rows : r.id <= q.id
         IN  <<least>> \o OrderById(rows \ {least})

\* a SELECT that drops the WHERE clause
SelectPosts_NoWhere(table, lower, limit) ==
    LET sorted == OrderById(table)
    IN  SubSeq(sorted, 1, IF limit < Len(sorted) THEN limit ELSE Len(sorted))

\* SELECT * FROM posts [WHERE id > $1] ORDER BY id LIMIT $n, for a limit the
\* database accepts (limit >= 0); `lower` is NaN for a query without WHERE
SelectPosts(table, lower, limit) ==
    LET matching == IF lower = NaN THEN table
                    ELSE {r \in table : r.id > lower[1]}
        sorted == OrderById(matching)
    IN  SubSeq(sorted, 1, IF limit < Len(sorted) THEN limit ELSE Len(sorted))

\* post.id.toString()
NumberToString(n) == SerializeID(n)

\* Buffer.from(post.id.toString()).toString('base64')
EncodeCursor(id) == Base64Encode(Bytes(NumberToString(id)))

\* Buffer.from(after, 'base64').toString('ascii')
DecodeCursor(after) == AsciiString(Base64Decode(after))

PostEdges(rows) ==
    [i \in 1..Len(rows) |-> [node |-> rows[i], cursor |-> EncodeCursor(rows[i].id)]]

PostsPageRows_All(rows, first) == rows

\* posts.slice(0, first)
PostsPageRows(rows, first) == Slice(rows, 0, first)

PostsHasNextPage_AtLeast(rows, first) == Len(rows) >= first

\* posts.length > first
PostsHasNextPage(rows, first) == Len(rows) > first

\* resolvers.Query.posts of the PostgreSQL guide; db.query rejects when the
\* cursor is no integer or the LIMIT is negative
PostsPage(first, after) ==
    LET n == IF first = Omitted THEN PostsDefaultFirst ELSE first[1]
        lower == IF Truthy(after) THEN PgInteger(DecodeCursor(after[1])) ELSE NaN
    IN  IF (Truthy(after) /\ lower = NaN) \/ n + 1 < 0
        THEN PageError(first, after)
        ELSE LET rows == SelectPosts(pgPosts, lower, n + 1)
             IN  PageResult(first, after, PostEdges(PostsPageRows(rows, n)),
                            PostsHasNextPage(rows, n))

\* a request of the users connection
RequestUsers(first, after) ==
    /\ pagination = "users"
    /\ page' = UsersPage(first, after)
    /\ UNCHANGED <<pagination, allUsers, pgPosts, trail>>
    /\ UNCHANGED outsidePagination

\* a request of the posts connection
RequestPosts(first, after) ==
    /\ pagination = "posts"
    /\ page' = PostsPage(first, after)
    /\ UNCHANGED <<pagination, allUsers, pgPosts, trail>>
    /\ UNCHANGED outsidePagination

----------------------------------------------------------------------------
(* Inputs of the paginated requests *)

UserIdSet == {SerializeID(n) : n \in 1..MaxRows}

\* the lists findAll may return: users with distinct ids, in any order
UserLists ==
    LET lists == UNION {[1..k -> UserIdSet] : k \in 0..MaxRows}
    IN  { [i \in 1..Len(l) |-> [id |-> l[i], name |-> "user"]] :
            l \in {m \in lists : \A i, j \in 1..Len(m) : i # j => m[i] # m[j]} }

PostIdSet == (1..MaxRows) \cup {BigId}

PostTables == { {[id |-> n, title |-> "post"] : n \in ids} : ids \in SUBSET PostIdSet }

\* page sizes: the default, and sizes below, up to and above the data set
FirstInputs == {Omitted} \cup {Given(n) : n \in (0 - BelowZero)..(MaxRows + 1)}

\* cursors sent to users: none, empty, a user's id, an id of no user
UserCursorInputs ==
    {Omitted, Given(<<>>)} \cup {Given(SerializeID(n)) : n \in 1..(MaxRows + 1)}

\* cursors sent to posts: none, empty, encoded ids, and text that is no
\* encoded id
PostCursorInputs ==
    {Omitted, Given(<<>>), Given(<<"!">>), Given(<<"2">>)}
        \cup {Given(EncodeCursor(n)) : n \in (0..MaxRows) \cup {BigId}}

InitPage ==
    /\ pagination \in {"users", "posts"}
    /\ allUsers \in (IF pagination = "users" THEN UserLists ELSE {<<>>})
    /\ pgPosts \in (IF pagination = "posts" THEN PostTables ELSE {{}})
    /\ page = [kind |-> "none"]
    /\ trail = NoTrail
    /\ server = "prisma"
    /\ InitData
    /\ occupied = {}
    /\ denied = {}
    /\ lpc = "boot"
    /\ portIndex = 0
    /\ attempted = <<>>
    /\ outcomes = <<>>
    /\ bound = {}
    /\ closed = {}
    /\ log = <<>>
    /\ Quiet({"pagination"})

NextPage ==
    \/ \E first \in FirstInputs, after \in UserCursorInputs : RequestUsers(first, after)
    \/ \E first \in FirstInputs, after \in PostCursorInputs : RequestPosts(first, after)

SpecPage == InitPage /\ [][NextPage]_vars

----------------------------------------------------------------------------
(* Claims on the pagination *)

\* the page size N of the last request
RequestedSize ==
    IF page.first # Omitted THEN page.first[1]
    ELSE IF pagination = "users" THEN UsersDefaultFirst ELSE PostsDefaultFirst

\* the users that follow the user the cursor names; all of them when there
\* is no cursor or the cursor names no user of the list
UsersBeyondCursor ==
    LET at == IF Truthy(page.after)
              THEN {i \in 1..Len(allUsers) : allUsers[i].id = page.after[1]}
              ELSE {}
    IN  IF at = {} THEN 1..Len(allUsers)
        ELSE {i \in 1..Len(allUsers) : \A j \in at : i > j}

\* the posts whose id is greater than the id the cursor encodes; all of them
\* when there is no cursor
PostsBeyondCursor ==
    IF Truthy(page.after)
    THEN {r \in pgPosts :
            \E n \in 0..(BigId + MaxRows) :
                EncodeCursor(n) = page.after[1] /\ r.id > n}
    ELSE pgPosts

BeyondCursor ==
    IF pagination = "users" THEN Cardinality(UsersBeyondCursor)
    ELSE Cardinality(PostsBeyondCursor)

\* C9: a paginated request with first = N >= 0 returns at most N edges, in
\* the list-based users pagination and in the SQL-based posts pagination.
C9_AtMostFirstEdges ==
    (page.kind = "ok" /\ RequestedSize >= 0) => Len(page.edges) <= RequestedSize

\* a posts page cut to N = 2 edges although more rows follow the cursor
C9_Witness ==
    /\ pagination = "posts"
    /\ page.kind = "ok"
    /\ page.first = Given(2)
    /\ Truthy(page.after)
    /\ Len(page.edges) = 2
    /\ Cardinality(PostsBeyondCursor) > 2

\* C10: hasNextPage is true exactly when more than N records exist beyond
\* the cursor (beyond the start when there is no cursor), in both
\* paginations.
C10_HasNextPageIffMore ==
    page.kind = "ok" => (page.hasNextPage <=> BeyondCursor > RequestedSize)

\* a users page after a cursor, with exactly N records beyond it: the last
\* page
C10_Witness ==
    /\ pagination = "users"
    /\ page.kind = "ok"
    /\ Truthy(page.after)
    /\ page.first # Omitted
    /\ RequestedSize >= 1
    /\ BeyondCursor = RequestedSize
    /\ BeyondCursor < Len(allUsers)
    /\ ~page.hasNextPage

\* the smaller of two numbers
Min(a, b) == IF a < b THEN a ELSE b

\* the ids of the page's nodes, in the order of the edges
PageIds == [i \in 1..Len(page.edges) |-> page.edges[i].node.id]

\* C11: in the SQL-based posts pagination the edges of a page are exactly
\* the first min(N, remaining) posts, in ascending id order, among the posts
\* whose id is greater than the id the cursor encodes (all posts when no
\* cursor is supplied).
C11_PostsPageIsPrefixBeyondCursor ==
    (pagination = "posts" /\ page.kind = "ok" /\ RequestedSize >= 0) =>
        /\ Len(page.edges) = Min(RequestedSize, Cardinality(PostsBeyondCursor))
        /\ \A i \in 1..Len(page.edges) : page.edges[i].node \in PostsBeyondCursor
        /\ \A i, j \in 1..Len(page.edges) : i < j => PageIds[i] < PageIds[j]
        /\ \A r \in PostsBeyondCursor :
              (\A i \in 1..Len(page.edges) : page.edges[i].node # r) =>
                  \A i \in 1..Len(page.edges) : PageIds[i] < r.id

\* a page after a cursor that skips a post, cut by N while a post remains
C11_Witness ==
    /\ pagination = "posts"
    /\ page.kind = "ok"
    /\ Truthy(page.after)
    /\ page.first = Given(2)
    /\ Len(page.edges) = 2
    /\ Cardinality(PostsBeyondCursor) = 3
    /\ Cardinality(pgPosts) > 3

\* C12 as stated: whenever a paginated request returns no edge, endCursor is
\* null and hasNextPage is false, for every data set, cursor and page size
\* (first = 0 included), in both paginations.
C12_EmptyPageHasNoNext ==
    (page.kind = "ok" /\ RequestedSize >= 0 /\ page.edges = <<>>) =>
        /\ page.endCursor = <<>>
        /\ ~page.hasNextPage

\* C12 as amended: whenever a paginated request returns no edge, endCursor
\* is null; hasNextPage is then false for every first >= 1, and for
\* first = 0 it is true exactly when records exist beyond the cursor.
C12_EmptyPageNullCursorNoNextUnlessZero ==
    (page.kind = "ok" /\ RequestedSize >= 0 /\ page.edges = <<>>) =>
        /\ page.endCursor = <<>>
        /\ RequestedSize >= 1 => ~page.hasNextPage
        /\ RequestedSize = 0 => (page.hasNextPage <=> BeyondCursor > 0)

\* a users page requested after the last user of a list of several: no
\* edge, no cursor, no next page
C12_Witness ==
    /\ pagination = "users"
    /\ page.kind = "ok"
    /\ Truthy(page.after)
    /\ RequestedSize >= 1
    /\ Len(allUsers) >= 2
    /\ page.edges = <<>>
    /\ page.endCursor = <<>>
    /\ ~page.hasNextPage

\* the last request sent a cursor that is the id of no user of the list
CursorOfNoUser ==
    /\ page.after # Omitted
    /\ \A i \in 1..Len(allUsers) : allUsers[i].id # page.after[1]

\* C26: in the list-based users pagination a cursor that is the id of no
\* current user is treated like an absent cursor: edges, hasNextPage and
\* endCursor are those of the same request without cursor, and for N >= 0 the
\* nodes are the first min(N, length) users of the list.
C26_UnknownCursorStartsOver ==
    (pagination = "users" /\ page.kind = "ok" /\ CursorOfNoUser) =>
        LET restart == UsersPage(page.first, Omitted)
        IN  /\ page.edges = restart.edges
            /\ page.hasNextPage = restart.hasNextPage
            /\ page.endCursor = restart.endCursor
            /\ RequestedSize >= 0 =>
                    /\ Len(page.edges) = Min(RequestedSize, Len(allUsers))
                    /\ \A i \in 1..Len(page.edges) : page.edges[i].node = allUsers[i]

\* a page of two users requested with the id of a user that is not in a list
\* of three: the page holds the first two users
C26_Witness ==
    /\ pagination = "users"
    /\ page.kind = "ok"
    /\ Truthy(page.after)
    /\ CursorOfNoUser
    /\ page.first = Given(2)
    /\ Len(allUsers) = 3
    /\ Len(page.edges) = 2
    /\ page.edges[1].node = allUsers[1]
    /\ page.hasNextPage

----------------------------------------------------------------------------
(* A client that walks the connection: it asks for the first page, then
   sends each endCursor back as `after` while hasNextPage is true *)

\* the page sizes of a walk: the default, and sizes from 0 up to above the
\* data set
WalkFirstInputs == {Omitted} \cup {Given(n) : n \in 0..(MaxRows + 1)}

\* the resolver the request reaches
Connection(first, after) ==
    IF pagination = "users" THEN UsersPage(first, after) ELSE PostsPage(first, after)

\* the ids of the nodes of a page, in the order of its edges
NodeIds(p) ==
    IF p.kind = "ok" THEN [i \in 1..Len(p.edges) |-> p.edges[i].node.id] ELSE <<>>

\* where the client stands after a page: it goes on while hasNextPage
Standing(p) ==
    IF p.kind # "ok" THEN "failed"
    ELSE IF p.hasNextPage THEN "walking" ELSE "done"

\* the `after` argument built from the previous endCursor; a null endCursor
\* sent back is falsy, like an omitted argument
AfterEndCursor(endCursor) ==
    IF endCursor = <<>> THEN Omitted ELSE Given(endCursor[1])

\* the first request of a walk: no cursor
StartWalk(first) ==
    /\ pagination \in {"users", "posts"}
    /\ trail.state # "walking"
    /\ LET p == Connection(first, Omitted)
       IN  /\ page' = p
           /\ trail' = [state |-> Standing(p), first |-> first, seen |-> NodeIds(p)]
    /\ UNCHANGED <<pagination, allUsers, pgPosts>>
    /\ UNCHANGED outsidePagination

\* the next request of a walk: same page size, after = the last endCursor
FollowEndCursor ==
    /\ trail.state = "walking"
    /\ LET p == Connection(trail.first, AfterEndCursor(page.endCursor))
       IN  /\ page' = p
           /\ trail' = [trail EXCEPT !.state = Standing(p),
                                     !.seen = trail.seen \o NodeIds(p)]
    /\ UNCHANGED <<pagination, allUsers, pgPosts>>
    /\ UNCHANGED outsidePagination

NextWalk ==
    \/ \E first \in WalkFirstInputs : StartWalk(first)
    \/ FollowEndCursor

SpecWalk == InitPage /\ [][NextWalk]_vars

\* the page size of the walk
WalkSize ==
    IF trail.first # Omitted THEN trail.first[1]
    ELSE IF pagination = "users" THEN UsersDefaultFirst ELSE PostsDefaultFirst

\* a follow-up request is due; with first = 0 the request returns the same
\* empty page again and changes nothing
FollowUpDue == trail.state = "walking" /\ WalkSize >= 1

\* the client keeps requesting while hasNextPage is true and the server
\* answers: weak fairness of FollowEndCursor, with FollowUpDue for its
\* enabling condition
SpecWalkFair ==
    SpecWalk /\ ([]<>(~FollowUpDue) \/ []<><<FollowEndCursor>>_vars)

----------------------------------------------------------------------------
(* Claims on a walk through the pages *)

\* the id a cursor stands for, as the resolver that receives it reads it
CursorId(cursor) ==
    IF pagination = "users" THEN cursor ELSE PgInteger(DecodeCursor(cursor))[1]

\* the ids served so far are the first ones of the sort order: the order of
\* the list for users, ascending ids for posts
SeenIsPrefix ==
    IF pagination = "users"
    THEN /\ Len(trail.seen) <= Len(allUsers)
         /\ \A i \in 1..Len(trail.seen) : trail.seen[i] = allUsers[i].id
    ELSE /\ \A i \in 1..Len(trail.seen) : \E r \in pgPosts : r.id = trail.seen[i]
         /\ \A i, j \in 1..Len(trail.seen) : i < j => trail.seen[i] < trail.seen[j]
         /\ \A r \in pgPosts :
               (\A i \in 1..Len(trail.seen) : trail.seen[i] # r.id) =>
                   \A i \in 1..Len(trail.seen) : trail.seen[i] < r.id

\* every record has been served
SeenIsAll ==
    Len(trail.seen) = (IF pagination = "users" THEN Len(allUsers)
                       ELSE Cardinality(pgPosts))

WalkSafe ==
    (trail.state \in {"walking", "done"} /\ WalkSize >= 1) =>
        /\ page.kind = "ok"
        /\ page.edges # <<>> =>
              /\ page.endCursor # <<>>
              /\ CursorId(page.endCursor[1]) = page.edges[Len(page.edges)].node.id
        /\ SeenIsPrefix
        /\ trail.state = "done" => (SeenIsAll /\ ~page.hasNextPage)

\* C13: on an unchanging data set and with first >= 1, endCursor encodes
\* the id of the last edge of the page, and a client that requests pages
\* with after = the previous endCursor while hasNextPage is true is served
\* every record exactly once, in sort order, and ends with a page whose
\* hasNextPage is false.
C13_WalkVisitsEveryRecordOnce ==
    /\ []WalkSafe
    /\ [][FollowUpDue => Len(trail'.seen) > Len(trail.seen)]_vars
    /\ FollowUpDue ~> (trail.state = "done")

\* a walk of three posts in pages of two, ended: the second page followed a
\* cursor and the two-digit id has been served
C13_Witness ==
    /\ pagination = "posts"
    /\ trail.state = "done"
    /\ trail.first = Given(2)
    /\ trail.seen = <<1, 2, BigId>>
    /\ Truthy(page.after)
    /\ Len(page.edges) = 1

----------------------------------------------------------------------------
(* The pooled query helper *)

\* server.js before it is started, for the specifications of the guides
NoServer ==
    /\ server = "prisma"
    /\ InitData
    /\ occupied = {}
    /\ denied = {}
    /\ lpc = "boot"
    /\ portIndex = 0
    /\ attempted = <<>>
    /\ outcomes = <<>>
    /\ bound = {}
    /\ closed = {}
    /\ log = <<>>

\* a release that leaves the client checked out
ReleaseClient_Leak(lease, client) == lease

\* client.release(): the client goes back to the pool
ReleaseClient(lease, client) == lease \ {client}

\* query(text, params) is called: it asks the pool for a client
QueryCall(c) ==
    /\ qpc[c] = "ready"
    /\ qpc' = [qpc EXCEPT ![c] = "connecting"]
    /\ UNCHANGED <<qclient, qthrew, qreleases, qresult, leased, misuse>>
    /\ UNCHANGED outsidePool

\* await pool.connect() resolves with an idle client; client.query is sent
PoolConnect(c, client) ==
    /\ qpc[c] = "connecting"
    /\ client \notin leased
    /\ qpc' = [qpc EXCEPT ![c] = "querying"]
    /\ qclient' = [qclient EXCEPT ![c] = client]
    /\ leased' = leased \cup {client}
    /\ UNCHANGED <<qthrew, qreleases, qresult, misuse>>
    /\ UNCHANGED outsidePool

\* await pool.connect() rejects: the call throws before its try block
PoolConnectFails(c) ==
    /\ qpc[c] = "connecting"
    /\ qpc' = [qpc EXCEPT ![c] = "done"]
    /\ qresult' = [qresult EXCEPT ![c] = "connect error"]
    /\ UNCHANGED <<qclient, qthrew, qreleases, leased, misuse>>
    /\ UNCHANGED outsidePool

\* await client.query(...) settles: the rows are returned or the error is
\* thrown, after the finally block has released the client
ClientQuerySettles(c, ok) ==
    /\ qpc[c] = "querying"
    /\ qthrew' = [qthrew EXCEPT ![c] = ~ok]
    /\ misuse' = (misuse \/ qclient[c] \notin leased)
    /\ leased' = ReleaseClient(leased, qclient[c])
    /\ qreleases' = [qreleases EXCEPT ![c] = @ + 1]
    /\ qresult' = [qresult EXCEPT ![c] = IF ok THEN "rows" ELSE "query error"]
    /\ qpc' = [qpc EXCEPT ![c] = "done"]
    /\ UNCHANGED qclient
    /\ UNCHANGED outsidePool

InitPool ==
    /\ NoServer
    /\ NoPool
    /\ Quiet({"pool"})

NextPool ==
    \/ \E c \in Calls : QueryCall(c)
    \/ \E c \in Calls, client \in Clients : PoolConnect(c, client)
    \/ \E c \in Calls : PoolConnectFails(c)
    \/ \E c \in Calls, ok \in BOOLEAN : ClientQuerySettles(c, ok)

SpecPool == InitPool /\ [][NextPool]_vars

----------------------------------------------------------------------------
(* Claims on the pooled query helper *)

\* the calls whose client.query is in flight
Querying == {c \in Calls : qpc[c] = "querying"}

\* C14: for any number of concurrent calls of query(), every client checked
\* out by pool.connect is released exactly once, whether client.query
\* succeeded or threw (the error still reaches the caller); no client is
\* released twice or without having been checked out, and once all calls
\* have finished no client remains checked out.
C14_EveryClientReleasedOnce ==
    /\ ~misuse
    /\ \A c \in Calls :
          qreleases[c] = IF qpc[c] = "done" /\ qclient[c] # 0 THEN 1 ELSE 0
    /\ leased = {qclient[c] : c \in Querying}
    /\ \A c, d \in Querying : c # d => qclient[c] # qclient[d]
    /\ \A c \in Calls : (qpc[c] = "done" /\ qthrew[c]) => qresult[c] = "query error"
    /\ (\A c \in Calls : qpc[c] = "done") => leased = {}

\* all calls have finished, having held a client each although the pool has
\* fewer clients than calls; one query threw and one returned rows
C14_Witness ==
    /\ \A c \in Calls : qpc[c] = "done" /\ qclient[c] # 0
    /\ \E c, d \in Calls : c # d /\ qclient[c] = qclient[d]
    /\ \E c \in Calls : qthrew[c] /\ qresult[c] = "query error"
    /\ \E c \in Calls : qresult[c] = "rows"
    /\ leased = {}

----------------------------------------------------------------------------
(* executeTransaction and createUserWithPost *)

\* the row a call inserts into a table
Row(table, c) == [table |-> table, call |-> c]

\* client.query(statement) is sent
Issue(t, statement) ==
    [t EXCEPT !.pc = statement, !.log = Append(@, statement)]

\* the statement in flight has settled
Settle(t, ok) ==
    [t EXCEPT !.outcomes = Append(@, IF ok THEN "ok" ELSE "error")]

\* the catch block is entered with `error`: ROLLBACK is sent
Catch(t, error) ==
    Issue([t EXCEPT !.failed = error, !.pending = {}], "ROLLBACK")

\* finally: client.release(), then the call returns or throws
Finally(t, result) ==
    [t EXCEPT !.pc = "done", !.releases = @ + 1, !.result = result]

\* executeTransaction is called and pool.connect() settles: BEGIN is sent,
\* or the call throws before its try block
TxConnect(c, ok) ==
    /\ tx[c].pc = "ready"
    /\ tx' = [tx EXCEPT ![c] =
                IF ok THEN Issue([@ EXCEPT !.held = TRUE], "BEGIN")
                ELSE [@ EXCEPT !.pc = "done", !.result = "thrown: connect"]]
    /\ UNCHANGED stored
    /\ UNCHANGED outsideTransaction

\* BEGIN settles: the callback runs and sends INSERT INTO users
BeginSettles(c, ok) ==
    /\ tx[c].pc = "BEGIN"
    /\ tx' = [tx EXCEPT ![c] =
                IF ok THEN Issue(Settle(@, ok), "INSERT user")
                ELSE Catch(Settle(@, ok), "BEGIN")]
    /\ UNCHANGED stored
    /\ UNCHANGED outsideTransaction

\* INSERT INTO users settles: the callback sends INSERT INTO posts
InsertUserSettles(c, ok) ==
    /\ tx[c].pc = "INSERT user"
    /\ tx' = [tx EXCEPT ![c] =
                IF ok THEN Issue([Settle(@, ok) EXCEPT
                                    !.pending = @ \cup {Row("users", c)}],
                                 "INSERT post")
                ELSE Catch(Settle(@, ok), "INSERT user")]
    /\ UNCHANGED stored
    /\ UNCHANGED outsideTransaction

\* INSERT INTO posts settles: the callback returns and COMMIT is sent
InsertPostSettles(c, ok) ==
    /\ tx[c].pc = "INSERT post"
    /\ tx' = [tx EXCEPT ![c] =
                IF ok THEN Issue([Settle(@, ok) EXCEPT
                                    !.pending = @ \cup {Row("posts", c)}],
                                 "COMMIT")
                ELSE Catch(Settle(@, ok), "INSERT post")]
    /\ UNCHANGED stored
    /\ UNCHANGED outsideTransaction

\* COMMIT settles: the result is returned after the client is released; a
\* COMMIT that fails may or may not have been applied by the database
CommitSettles(c, ok, applied) ==
    /\ tx[c].pc = "COMMIT"
    /\ ok => applied
    /\ stored' = IF applied THEN stored \cup tx[c].pending ELSE stored
    /\ tx' = [tx EXCEPT ![c] =
                IF ok THEN Finally([Settle(@, ok) EXCEPT !.pending = {}], "returned")
                ELSE Catch(Settle(@, ok), "COMMIT")]
    /\ UNCHANGED outsideTransaction

\* ROLLBACK settles: `throw error` rethrows the caught error, unless the
\* await of ROLLBACK itself threw; the client is released either way
RollbackSettles(c, ok) ==
    /\ tx[c].pc = "ROLLBACK"
    /\ tx' = [tx EXCEPT ![c] =
                Finally(Settle(@, ok),
                        IF ok THEN "thrown: " \o @.failed ELSE "thrown: ROLLBACK")]
    /\ UNCHANGED stored
    /\ UNCHANGED outsideTransaction

InitTransaction ==
    /\ NoServer
    /\ NoTransaction
    /\ Quiet({"transaction"})

NextTransaction ==
    \/ \E c \in Transactions, ok \in BOOLEAN : TxConnect(c, ok)
    \/ \E c \in Transactions, ok \in BOOLEAN : BeginSettles(c, ok)
    \/ \E c \in Transactions, ok \in BOOLEAN : InsertUserSettles(c, ok)
    \/ \E c \in Transactions, ok \in BOOLEAN : InsertPostSettles(c, ok)
    \/ \E c \in Transactions, ok, applied \in BOOLEAN : CommitSettles(c, ok, applied)
    \/ \E c \in Transactions, ok \in BOOLEAN : RollbackSettles(c, ok)

SpecTransaction == InitTransaction /\ [][NextTransaction]_vars

----------------------------------------------------------------------------
(* Claims on executeTransaction *)

\* BEGIN is issued first, the callback's statements only after BEGIN
\* succeeded, COMMIT only after the callback's two inserts succeeded
IssuedInOrder(t) ==
    /\ t.log # <<>> => t.log[1] = "BEGIN"
    /\ \A i \in 1..Len(t.log) :
          t.log[i] \in {"INSERT user", "INSERT post"} =>
              i > 1 /\ t.outcomes[1] = "ok"
    /\ \A i \in 1..Len(t.log) :
          t.log[i] = "COMMIT" =>
              /\ SubSeq(t.log, 1, i) = <<"BEGIN", "INSERT user", "INSERT post", "COMMIT">>
              /\ \A j \in 1..(i - 1) : t.outcomes[j] = "ok"

\* the callback's result is returned only after COMMIT succeeded
ReturnsAfterCommit(t) ==
    t.result = "returned" =>
        /\ t.log[Len(t.log)] = "COMMIT"
        /\ Len(t.outcomes) = Len(t.log)
        /\ t.outcomes[Len(t.outcomes)] = "ok"

\* an error of BEGIN, the callback or COMMIT: ROLLBACK is issued and that
\* error is what the caller gets
RollsBackAndRethrows(t) ==
    (t.pc = "done" /\ t.failed # "none") =>
        /\ \E i \in 1..Len(t.log) : t.log[i] = "ROLLBACK"
        /\ t.result = "thrown: " \o t.failed

\* the client is released, once
ReleasedOnce(t) == (t.pc = "done" /\ t.held) => t.releases = 1

\* the user and the post of a call are stored together or not at all
BothOrNeither(c) == Row("users", c) \in stored <=> Row("posts", c) \in stored

\* C15: executeTransaction issues BEGIN before the callback, COMMIT only
\* after the callback completed without error, and returns the callback's
\* result only after COMMIT succeeded; on any error in BEGIN, the callback
\* or COMMIT it issues ROLLBACK and rethrows the error; the client is
\* released in every case; createUserWithPost leaves either both the user
\* and the post inserted or neither.
C15_TransactionAtomicAndRethrows ==
    \A c \in Transactions :
        /\ IssuedInOrder(tx[c])
        /\ ReturnsAfterCommit(tx[c])
        /\ RollsBackAndRethrows(tx[c])
        /\ ReleasedOnce(tx[c])
        /\ BothOrNeither(c)

----------------------------------------------------------------------------
(* The DataLoader batch functions *)

\* a key of a loader: a JavaScript number or a string of characters
NumberKey(n) == [t |-> "number", n |-> n, s |-> <<>>]
StringKey(str) == [t |-> "string", n |-> 0, s |-> str]

\* parseInt(id) of a key
KeyParseInt(key) ==
    IF key.t = "number" THEN Number(key.n) ELSE ParseInt(key.s)

\* an element of the parameter array cast by $1::int[]; NaN stands for the
\* error "invalid input syntax for type integer"
KeyAsInteger(key) ==
    IF key.t = "number" THEN Number(key.n) ELSE PgInteger(key.s)

\* the property name a value is turned into by acc[value]
PropertyKey(key) ==
    IF key.t = "number" THEN SerializeID(key.n) ELSE key.s

\* the query rejects when an element of the array is no integer
CastFails(keys) == \E i \in 1..Len(keys) : KeyAsInteger(keys[i]) = NaN

\* SELECT * FROM users WHERE id = ANY($1::int[])
SelectUsersByIds(ids) ==
    LET wanted == {KeyAsInteger(ids[i])[1] : i \in 1..Len(ids)}
        Matches(row) == row.id \in wanted
    IN  SelectSeq(dbUsers, Matches)

\* SELECT * FROM posts WHERE author_id = ANY($1::int[])
SelectPostsByAuthorIds(authorIds) ==
    LET wanted == {KeyAsInteger(authorIds[i])[1] : i \in 1..Len(authorIds)}
        Matches(row) == row.author_id \in wanted
    IN  SelectSeq(dbPosts, Matches)

\* a comparison with the key as it was given
UserMatches_NoParse(user, id) == id.t = "number" /\ user.id = id.n

\* user.id === parseInt(id)
UserMatches(user, id) ==
    KeyParseInt(id) # NaN /\ user.id = KeyParseInt(id)[1]

\* users.find(user => user.id === parseInt(id)) || null; null is the empty
\* tuple, a user u is <<u>>
FindUser(users, id) ==
    LET hits == {i \in 1..Len(users) : UserMatches(users[i], id)}
    IN  IF hits = {} THEN <<>>
        ELSE <<users[CHOOSE i \in hits : \A j \in hits : i <= j]>>

RECURSIVE GroupByAuthorId(_, _)
\* posts.reduce((acc, post) => ..., {}): the posts under the property
\* named by their author_id, in the order of the rows
GroupByAuthorId(rows, acc) ==
    IF rows = <<>> THEN acc
    ELSE LET post == Head(rows)
             name == SerializeID(post.author_id)
             list == IF name \in DOMAIN acc THEN acc[name] ELSE <<>>
         IN  GroupByAuthorId(Tail(rows),
                 [k \in DOMAIN acc \cup {name} |->
                     IF k = name THEN Append(list, post) ELSE acc[k]])

\* postsByAuthorId[authorId] || []
PostsOf(postsByAuthorId, authorId) ==
    IF PropertyKey(authorId) \in DOMAIN postsByAuthorId
    THEN postsByAuthorId[PropertyKey(authorId)]
    ELSE <<>>

BatchResult(fn, keys, result) ==
    [kind |-> "ok", fn |-> fn, keys |-> keys, result |-> result]

BatchError(fn, keys) == [kind |-> "error", fn |-> fn, keys |-> keys]

\* batchGetUsersByIds(ids)
BatchGetUsersByIds(ids) ==
    IF CastFails(ids) THEN BatchError("users", ids)
    ELSE LET users == SelectUsersByIds(ids)
         IN  BatchResult("users", ids,
                         [i \in 1..Len(ids) |-> FindUser(users, ids[i])])

\* batchGetPostsByAuthorIds(authorIds)
BatchGetPostsByAuthorIds(authorIds) ==
    IF CastFails(authorIds) THEN BatchError("posts", authorIds)
    ELSE LET rows == SelectPostsByAuthorIds(authorIds)
             postsByAuthorId == GroupByAuthorId(rows, <<>>)
         IN  BatchResult("posts", authorIds,
                         [i \in 1..Len(authorIds) |->
                             PostsOf(postsByAuthorId, authorIds[i])])

\* the userById loader dispatches a batch
LoadUsers(ids) ==
    /\ batch.kind = "none"
    /\ batch' = BatchGetUsersByIds(ids)
    /\ UNCHANGED <<dbUsers, dbPosts>>
    /\ UNCHANGED outsideLoaders

\* the postsByAuthorId loader dispatches a batch
LoadPosts(authorIds) ==
    /\ batch.kind = "none"
    /\ batch' = BatchGetPostsByAuthorIds(authorIds)
    /\ UNCHANGED <<dbUsers, dbPosts>>
    /\ UNCHANGED outsideLoaders

\* keys: ids as the rows carry them (numbers), ids as arguments carry them
\* (strings), and a string that is no integer
KeyInputs ==
    {NumberKey(n) : n \in 1..(MaxKeyId + 1)}
        \cup {StringKey(SerializeID(1)), StringKey(<<"1", "a">>)}

KeyLists == UNION {[1..k -> KeyInputs] : k \in 0..MaxKeys}

\* the sequences without repetition over a set
Arrangements(S) ==
    {l \in UNION {[1..k -> S] : k \in 0..Cardinality(S)} :
        \A i, j \in 1..Len(l) : i # j => l[i] # l[j]}

\* tables users: distinct ids, any order of the rows
UserTables ==
    {[i \in 1..Len(l) |-> [id |-> l[i], name |-> "user"]] : l \in Arrangements(1..MaxKeyId)}

\* tables posts: distinct ids, any order of the rows, any author
PostRowTables ==
    UNION { {[i \in 1..Len(l) |-> [id |-> l[i], author_id |-> a[i]]] :
                a \in [1..Len(l) -> 1..MaxKeyId]} :
            l \in Arrangements(1..MaxLoaderPosts) }

InitLoaders ==
    /\ NoServer
    /\ \/ dbUsers \in UserTables /\ dbPosts = <<>>
       \/ dbUsers = <<>> /\ dbPosts \in PostRowTables
    /\ batch = [kind |-> "none"]
    /\ Quiet({"loaders"})

NextLoaders ==
    \/ \E ids \in KeyLists : LoadUsers(ids)
    \/ \E authorIds \in KeyLists : LoadPosts(authorIds)

SpecLoaders == InitLoaders /\ [][NextLoaders]_vars

----------------------------------------------------------------------------
(* Claims on the batch functions *)

\* the id a key stands for: the number itself, or the number a string is
\* the decimal form of
KeyId(key) ==
    IF key.t = "number" THEN key.n
    ELSE CHOOSE n \in 0..(MaxKeyId + 1) : SerializeID(n) = key.s

----------------------------------------------------------------------------
(* Authentication through the context *)

\* the users getUser may return
AuthUsers == {[id |-> "u1", role |-> "USER"], [id |-> "u2", role |-> "ADMIN"]}

\* req.headers.authorization || '': an absent header and an empty one both
\* give the empty token
TokenOf(header) == IF header = Omitted \/ header[1] = "" THEN "" ELSE header[1]

\* getUser(token)
GetUser(token) == knownTokens[token]

\* context({ req }): { user, isAuthenticated: !!user }
Context(header) ==
    LET user == GetUser(TokenOf(header))
    IN  [user |-> user, isAuthenticated |-> user # <<>>]

\* a resolver returned `value`
Data(field, header, context, value, adminDataRead) ==
    [kind |-> "data", field |-> field, header |-> header, context |-> context,
     value |-> value, message |-> "", adminDataRead |-> adminDataRead]

\* a resolver threw new Error(message)
Refused(field, header, context, message) ==
    [kind |-> "error", field |-> field, header |-> header, context |-> context,
     value |-> <<>>, message |-> message, adminDataRead |-> FALSE]

\* resolvers.Query.me
Me(header, context) ==
    IF ~context.isAuthenticated
    THEN Refused("me", header, context, "Vous devez être connecté")
    ELSE Data("me", header, context, context.user, FALSE)

\* a check of the login alone
AdminRefused_LoginOnly(context) == ~context.isAuthenticated

\* !isAuthenticated || user.role !== 'ADMIN'
AdminRefused(context) ==
    ~context.isAuthenticated \/ context.user[1].role # "ADMIN"

\* resolvers.Query.adminData; getAdminData() is called on the returning
\* path only
AdminData(header, context) ==
    IF AdminRefused(context)
    THEN Refused("adminData", header, context, "Accès non autorisé")
    ELSE Data("adminData", header, context, <<"admin data">>, TRUE)

\* a request of the field me
RequestMe(header) ==
    /\ answer' = Me(header, Context(header))
    /\ UNCHANGED knownTokens
    /\ UNCHANGED outsideAuth

\* a request of the field adminData
RequestAdminData(header) ==
    /\ answer' = AdminData(header, Context(header))
    /\ UNCHANGED knownTokens
    /\ UNCHANGED outsideAuth

\* the Authorization headers of the requests: absent, or a token
HeaderInputs == {Omitted} \cup {Given(token) : token \in Tokens}

InitAuth ==
    /\ NoServer
    /\ knownTokens \in [Tokens -> {<<>>} \cup {<<u>> : u \in AuthUsers}]
    /\ answer = [kind |-> "none"]
    /\ Quiet({"auth"})

NextAuth ==
    \/ \E header \in HeaderInputs : RequestMe(header)
    \/ \E header \in HeaderInputs : RequestAdminData(header)

SpecAuth == InitAuth /\ [][NextAuth]_vars

----------------------------------------------------------------------------
(* Claims on the protected resolvers *)

\* the user the request's token resolves to: <<user>>, or the empty tuple
Caller == knownTokens[IF answer.header = Omitted THEN "" ELSE answer.header[1]]

\* C17: the protected resolvers never return data to an unauthorised
\* caller: me returns the context user only when isAuthenticated is true,
\* which holds exactly when the token resolved to a user, and otherwise
\* raises an error; adminData returns data only when the caller is
\* authenticated and has role ADMIN, and otherwise raises 'Accès non
\* autorisé' without calling getAdminData.
C17_NoDataForUnauthorised ==
    answer.kind # "none" =>
        /\ answer.context.isAuthenticated <=> Caller # <<>>
        /\ answer.field = "me" =>
              IF Caller # <<>>
              THEN answer.kind = "data" /\ answer.value = Caller
              ELSE answer.kind = "error"
        /\ answer.field = "adminData" =>
              IF Caller # <<>> /\ Caller[1].role = "ADMIN"
              THEN answer.kind = "data" /\ answer.adminDataRead
              ELSE /\ answer.kind = "error"
                   /\ answer.message = "Accès non autorisé"
                   /\ ~answer.adminDataRead

\* adminData asked by a logged-in user who is no administrator: refused,
\* getAdminData not called
C17_Witness ==
    /\ answer.kind = "error"
    /\ answer.field = "adminData"
    /\ answer.context.isAuthenticated
    /\ answer.context.user[1].role = "USER"
    /\ ~answer.adminDataRead

----------------------------------------------------------------------------
(* The @auth directive *)

\* enum Role
Roles == {"USER", "ADMIN"}

\* an @auth annotation: on an object type (field "") or on one of its fields
OnObject(T) == [type |-> T, field |-> ""]
OnField(T, f) == [type |-> T, field |-> f]

\* the annotations of the schema
Annotations ==
    {OnObject(T) : T \in {U \in DirectiveTypes : declared.object[U] # "none"}}
        \cup {OnField(a[1], a[2]) :
                a \in {b \in DirectiveTypes \X DirectiveFields :
                        declared.field[b[1]][b[2]] # "none"}}

\* ensureFieldsWrapped(objectType): the wrapper count of every field of T
\* afterwards
EnsureFieldsWrapped(T) ==
    IF wrappedFlag[T] THEN wraps
    ELSE [wraps EXCEPT ![T] = [f \in DirectiveFields |-> wraps[T][f] + 1]]

\* visitObject(object), with this.args.requires the role the type declares
VisitObject(T) ==
    /\ OnObject(T) \in Annotations \ visited
    /\ wraps' = EnsureFieldsWrapped(T)
    /\ wrappedFlag' = [wrappedFlag EXCEPT ![T] = TRUE]
    /\ objectRole' = [objectRole EXCEPT ![T] = declared.object[T]]
    /\ visited' = visited \cup {OnObject(T)}
    /\ UNCHANGED <<declared, fieldRole, fieldCall>>
    /\ UNCHANGED outsideDirective

\* visitFieldDefinition(field, details), with this.args.requires the role
\* the field declares
VisitFieldDefinition(T, f) ==
    /\ OnField(T, f) \in Annotations \ visited
    /\ wraps' = EnsureFieldsWrapped(T)
    /\ wrappedFlag' = [wrappedFlag EXCEPT ![T] = TRUE]
    /\ fieldRole' = [fieldRole EXCEPT ![T][f] = declared.field[T][f]]
    /\ visited' = visited \cup {OnField(T, f)}
    /\ UNCHANGED <<declared, objectRole, fieldCall>>
    /\ UNCHANGED outsideDirective

\* a required role read from the field alone
RequiredRole_FieldOnly(T, f) == fieldRole[T][f]

\* field._requiredAuthRole || objectType._requiredAuthRole
RequiredRole(T, f) ==
    IF fieldRole[T][f] # "none" THEN fieldRole[T][f] ELSE objectRole[T]

\* the outcome of resolving a field
Resolved(T, f, user) ==
    [kind |-> "data", type |-> T, field |-> f, user |-> user, message |-> "",
     resolveCalls |-> 1]

Denied(T, f, user, message) ==
    [kind |-> "error", type |-> T, field |-> f, user |-> user,
     message |-> message, resolveCalls |-> 0]

\* field.resolve as the directive replaced it
WrappedResolve(T, f, user) ==
    LET requiredRole == RequiredRole(T, f)
    IN  IF requiredRole = "none" THEN Resolved(T, f, user)
        ELSE IF user = <<>> THEN Denied(T, f, user, "Non authentifié")
        ELSE IF requiredRole = "ADMIN" /\ user[1].role # "ADMIN"
             THEN Denied(T, f, user, "Permission insuffisante")
        ELSE Resolved(T, f, user)

\* a request resolves field f of type T with context.user = user, once the
\* schema is built: the wrapper if there is one, else the field's resolver
ResolveField(T, f, user) ==
    /\ visited = Annotations
    /\ fieldCall' = IF wraps[T][f] > 0 THEN WrappedResolve(T, f, user)
                    ELSE Resolved(T, f, user)
    /\ UNCHANGED <<declared, visited, objectRole, fieldRole, wrappedFlag, wraps>>
    /\ UNCHANGED outsideDirective

\* context.user: none, or a user with a role
ContextUsers == {<<>>} \cup {<<[id |-> "u", role |-> r]>> : r \in Roles}

\* the schemas: any role, or none, on each object type and on each field
Schemas ==
    [object : [DirectiveTypes -> Roles \cup {"none"}],
     field : [DirectiveTypes -> [DirectiveFields -> Roles \cup {"none"}]]]

InitDirective ==
    /\ NoServer
    /\ declared \in Schemas
    /\ Unvisited
    /\ Quiet({"directive"})

NextDirective ==
    \/ \E T \in DirectiveTypes : VisitObject(T)
    \/ \E T \in DirectiveTypes, f \in DirectiveFields : VisitFieldDefinition(T, f)
    \/ \E T \in DirectiveTypes, f \in DirectiveFields, user \in ContextUsers :
          ResolveField(T, f, user)

SpecDirective == InitDirective /\ [][NextDirective]_vars

----------------------------------------------------------------------------
(* Claims on the @auth directive *)

\* the role the schema requires for a field: the field's own, else its
\* object type's
DeclaredRole(T, f) ==
    IF declared.field[T][f] # "none" THEN declared.field[T][f]
    ELSE declared.object[T]

\* the caller meets a required role
Meets(user, role) ==
    \/ role = "none"
    \/ role = "USER" /\ user # <<>>
    \/ role = "ADMIN" /\ user # <<>> /\ user[1].role = "ADMIN"

\* an object type the directive has visited, itself or through a field
Wrapped(T) == \E a \in visited : a.type = T

\* C18: with @auth the underlying resolver of a field is invoked only when
\* the caller meets the field's required role (the field's own role, else
\* its object type's): never for ADMIN unless context.user exists and has
\* role ADMIN, never for USER unless context.user exists, always when no
\* role is required; a refused access raises an error instead of returning
\* a value. Every field of a wrapped object type is wrapped exactly once
\* however many times the directive visits the type.
C18_ResolvedOnlyForRequiredRole ==
    /\ fieldCall.kind # "none" =>
          LET role == DeclaredRole(fieldCall.type, fieldCall.field)
          IN  IF Meets(fieldCall.user, role)
              THEN fieldCall.kind = "data" /\ fieldCall.resolveCalls = 1
              ELSE fieldCall.kind = "error" /\ fieldCall.resolveCalls = 0
    /\ \A T \in DirectiveTypes, f \in DirectiveFields :
          wraps[T][f] = IF Wrapped(T) THEN 1 ELSE 0

\* a field that inherits ADMIN from its type, the type having been visited
\* twice (for itself and for its other field), refused to a logged-in user
\* who is no administrator
C18_Witness ==
    /\ fieldCall.kind = "error"
    /\ fieldCall.message = "Permission insuffisante"
    /\ declared.object[fieldCall.type] = "ADMIN"
    /\ declared.field[fieldCall.type][fieldCall.field] = "none"
    /\ Cardinality({a \in visited : a.type = fieldCall.type}) = 2
    /\ fieldCall.user # <<>>

----------------------------------------------------------------------------
(* The seed script of the Prisma database (prisma/seed.js, main) *)

\* the data of the two prisma.user.create calls; the password column is read
\* by no resolver and is left out of the rows
SeedUserData ==
    <<[name |-> "Guigui", email |-> "guigui@example.com"],
      [name |-> "Test", email |-> "test@example.com"]>>

\* the authorId of the k-th prisma.post.create call, with hard-wired ids
SeedAuthor_Literal(k) == IF k <= 2 THEN 1 ELSE 2

\* the authorId of the k-th prisma.post.create call: user1.id, user1.id, user2.id
SeedAuthor(k) == IF k <= 2 THEN seedIds[1] ELSE seedIds[2]

\* the data of the three prisma.post.create calls
SeedPostData(k) ==
    [title |-> <<"seed title 1", "seed title 2", "seed title 3">>[k],
     content |-> <<"seed content 1", "seed content 2", "seed content 3">>[k],
     summary |-> <<"seed summary 1", "seed summary 2", "seed summary 3">>[k],
     published |-> (k <= 2),
     authorId |-> SeedAuthor(k)]

\* the calls main has awaited so far, by name
SeedCalls == [i \in 1..Len(seedLog) |-> seedLog[i].call]

\* a rejected call leaves main; .catch logs it and exits with code 1
SeedFails(call) ==
    /\ seedState' = "failed"
    /\ seedLog' = Append(seedLog, [call |-> call, ok |-> FALSE])
    /\ UNCHANGED seedIds

SeedReturns(call) == seedLog' = Append(seedLog, [call |-> call, ok |-> TRUE])

seedFrame == <<server, posts, resp, created, touched, deleted, listenVars,
               pageVars, poolVars, txVars, loaderVars, authVars, directiveVars,
               sqlVars, initVars>>

\* await prisma.post.deleteMany({}), the first statement of main
SeedDeletePosts ==
    /\ server = "prisma"
    /\ seedState = "idle"
    /\ postTable' = {}
    /\ seedState' = "running"
    /\ SeedReturns("post.deleteMany")
    /\ UNCHANGED <<userTable, userSeq, postSeq, seedIds>>
    /\ UNCHANGED seedFrame

\* await prisma.user.deleteMany({}); the foreign key refuses the delete while a
\* post written by a request in between still references a user
SeedDeleteUsers ==
    /\ seedState = "running"
    /\ SeedCalls = <<"post.deleteMany">>
    /\ IF \E p \in postTable : AuthorExists(p.authorId)
       THEN /\ SeedFails("user.deleteMany")
            /\ UNCHANGED userTable
       ELSE /\ userTable' = {}
            /\ SeedReturns("user.deleteMany")
            /\ UNCHANGED <<seedState, seedIds>>
    /\ UNCHANGED <<postTable, userSeq, postSeq>>
    /\ UNCHANGED seedFrame

\* const user1 = await prisma.user.create(...), then user2
SeedCreateUser ==
    /\ seedState = "running"
    /\ Len(seedLog) \in {2, 3}
    /\ LET data == SeedUserData[Len(seedLog) - 1]
           row == [id |-> Autoincrement(userSeq), name |-> data.name,
                   email |-> data.email]
       IN  /\ userTable' = userTable \cup {row}
           /\ userSeq' = row.id
           /\ seedIds' = Append(seedIds, row.id)
    /\ SeedReturns("user.create")
    /\ UNCHANGED <<postTable, postSeq, seedState>>
    /\ UNCHANGED seedFrame

\* const post1 = await prisma.post.create(...), then post2 and post3; main
\* returns after the third
SeedCreatePost ==
    /\ seedState = "running"
    /\ Len(seedLog) \in {4, 5, 6}
    /\ LET k == Len(seedLog) - 3
           data == SeedPostData(k)
       IN  IF AuthorExists(data.authorId)
           THEN /\ postTable' = postTable \cup {WithId(Autoincrement(postSeq), data)}
                /\ postSeq' = Autoincrement(postSeq)
                /\ SeedReturns("post.create")
                /\ seedState' = IF k = 3 THEN "done" ELSE "running"
                /\ UNCHANGED seedIds
           ELSE /\ SeedFails("post.create")
                /\ UNCHANGED <<postTable, postSeq>>
    /\ UNCHANGED <<userTable, userSeq>>
    /\ UNCHANGED seedFrame

\* the authorId arguments of createPost: the ids createUser and the seed
\* script hand out, and one that no user has
SeedAuthorIdInputs == 1..(MaxUsers + Len(SeedUserData) + 1)

\* the other arguments of the mutations, which no foreign key looks at: one
\* createPost and one updatePost that changes a row
SeedCreatePostInputs == {args \in CreatePostInputs : args.title = "t1"}

SeedUpdatePostInputs == {args \in UpdatePostInputs : args.title = "t3"}

\* the Prisma-backed server is up and the seed script has not been run
InitSeed ==
    /\ InitCrud
    /\ server = "prisma"

\* the mutations of the Prisma-backed server, and the seed script run once
\* against the same database at any moment
NextSeed ==
    \/ \E name \in {"Guigui"}, email \in {"guigui@example.com"} : CreateUser(name, email)
    \/ \E args \in SeedCreatePostInputs, authorId \in SeedAuthorIdInputs :
           CreatePost(args, authorId)
    \/ \E id \in MutationIdInputs, args \in SeedUpdatePostInputs : UpdatePost(id, args)
    \/ \E id \in MutationIdInputs : DeletePost(id)
    \/ SeedDeletePosts
    \/ SeedDeleteUsers
    \/ SeedCreateUser
    \/ SeedCreatePost

SpecSeed == InitSeed /\ [][NextSeed]_vars

\* the order of the calls of main
SeedOrder ==
    <<"post.deleteMany", "user.deleteMany", "user.create", "user.create",
      "post.create", "post.create", "post.create">>

\* every stored post's authorId is the id of a stored user
PostsReferenceUsers == \A p \in postTable : \E u \in userTable : u.id = p.authorId

\* the calls of the seed script so far are a prefix of SeedOrder, all of them
\* returned unless a request wrote a post between the two deleteMany calls
SeedInOrder ==
    /\ Len(seedLog) <= Len(SeedOrder)
    /\ SeedCalls = SubSeq(SeedOrder, 1, Len(seedLog))
    /\ \A i \in 1..Len(seedLog) : ~seedLog[i].ok => seedLog[i].call = "user.deleteMany"
    /\ seedState = "done" <=> (Len(seedLog) = Len(SeedOrder) /\ seedLog[Len(seedLog)].ok)

\* C19: on the Prisma-backed server, in every state reached by createUser,
\* createPost, updatePost, deletePost and the seed script, every stored post's
\* authorId references a stored user; a step adds a post only for an author
\* that was stored before the step, so a createPost whose authorId matches no
\* user adds none; and the seed script deletes the posts before the users and
\* creates its users before its posts, which are all stored.
C19_PostsReferenceExistingUsers ==
    /\ [](PostsReferenceUsers /\ SeedInOrder)
    /\ [][\A p \in postTable' \ postTable : \E u \in userTable : u.id = p.authorId]_vars
    /\ [][\A args \in SeedCreatePostInputs, authorId \in SeedAuthorIdInputs :
             (CreatePost(args, authorId) /\ ~AuthorExists(authorId))
                 => postTable' = postTable]_vars

\* a createPost for an unknown author was refused, and the seed script has run
\* to its end on a database that held a user before: its users got the ids 2
\* and 3 and its three posts are stored
C19_Witness ==
    /\ seedState = "done"
    /\ seedIds = <<2, 3>>
    /\ resp.op = "createPost"
    /\ resp.status = "error"
    /\ Cardinality(postTable) = 3

----------------------------------------------------------------------------
(* The SQL-backed mutations of the PostgreSQL guide: updatePost, deletePost *)

\* a row of the posts table as a test would have inserted it
SqlPostRow(n) ==
    [id |-> n, title |-> "t1", content |-> "c1", published |-> FALSE,
     updated_at |-> Null]

\* the ID arguments: the decimal form of the ids of the table and of one id
\* beyond them, one with a blank in front, and one that is no integer
SqlIdInputs ==
    {SerializeID(n) : n \in 1..(MaxSqlPosts + 1)} \cup {<<" ", "1">>, <<"a">>}

\* the optional arguments of updatePost: left out, null, or a value
SqlUpdateInputs ==
    { [title |-> Undefined, content |-> Undefined, published |-> Omitted],
      [title |-> "t3", content |-> Undefined, published |-> Given(TRUE)],
      [title |-> Null, content |-> "c3", published |-> Omitted] }

\* WHERE id = $1: the rows whose id is the integer the parameter is read as
SqlWhereId(table, n) == {row \in table : row.id = n}

\* DELETE FROM posts, without its WHERE clause
SqlDeleteFrom_All(table, n) == {}

\* DELETE FROM posts WHERE id = $1
SqlDeleteFrom(table, n) == table \ SqlWhereId(table, n)

\* SET ...: the columns of the supplied arguments and updated_at
SqlSet(row, args) ==
    [id |-> row.id,
     title |-> IF args.title # Undefined THEN args.title ELSE row.title,
     content |-> IF args.content # Undefined THEN args.content ELSE row.content,
     published |-> IF args.published # Omitted THEN args.published[1] ELSE row.published,
     updated_at |-> "CURRENT_TIMESTAMP"]

\* title and content are NOT NULL
SqlNotNullViolated(row) == row.title = Null \/ row.content = Null

\* what a call has returned or thrown
SqlPending == [kind |-> "pending", post |-> <<>>]
SqlReturned(row) == [kind |-> "post", post |-> <<row>>]
SqlNotFound == [kind |-> "non trouvé", post |-> <<>>]
SqlQueryRejected == [kind |-> "query rejected", post |-> <<>>]

\* a call: its arguments, the table when it was made, the rows its SELECT
\* returned and its outcome
SqlCall(op, id, begun) ==
    [op |-> op, id |-> id, begun |-> begun, selected |-> {}, pc |-> "called",
     outcome |-> SqlPending]

SqlInFlight == {c \in 1..Len(sqlCalls) : sqlCalls[c].pc # "done"}

SqlEnds(c, outcome) ==
    sqlCalls' = [sqlCalls EXCEPT ![c].pc = "done", ![c].outcome = outcome]

\* updatePost: one UPDATE ... WHERE id = $n RETURNING *, then the length check
SqlUpdatePost(id, args) ==
    /\ Len(sqlCalls) < NumSqlCalls
    /\ LET c == Len(sqlCalls) + 1
           call == SqlCall("updatePost", id, sqlPosts)
           n == PgInteger(id)
           hit == IF n = NaN THEN {} ELSE SqlWhereId(sqlPosts, n[1])
           set == {SqlSet(row, args) : row \in hit}
           Ended(outcome) ==
               sqlCalls' = Append(sqlCalls, [call EXCEPT !.pc = "done", !.outcome = outcome])
       IN  IF n = NaN \/ \E row \in set : SqlNotNullViolated(row)
           THEN /\ Ended(SqlQueryRejected)
                /\ UNCHANGED sqlPosts
           ELSE IF set = {}
           THEN /\ Ended(SqlNotFound)
                /\ UNCHANGED sqlPosts
           ELSE /\ sqlPosts' = (sqlPosts \ hit) \cup set
                /\ Ended(SqlReturned(CHOOSE row \in set : TRUE))
    /\ UNCHANGED <<crudVars, listenVars, pageVars, poolVars, txVars, loaderVars,
                   authVars, directiveVars, seedVars, initVars>>

\* deletePost up to its first await: SELECT * FROM posts WHERE id = $1, then
\* the length check
SqlDeletePost(id) ==
    /\ Len(sqlCalls) < NumSqlCalls
    /\ LET call == SqlCall("deletePost", id, sqlPosts)
           n == PgInteger(id)
           post == IF n = NaN THEN {} ELSE SqlWhereId(sqlPosts, n[1])
       IN  sqlCalls' = Append(sqlCalls,
               IF n = NaN
               THEN [call EXCEPT !.pc = "done", !.outcome = SqlQueryRejected]
               ELSE IF post = {}
               THEN [call EXCEPT !.pc = "done", !.outcome = SqlNotFound]
               ELSE [call EXCEPT !.pc = "selected", !.selected = post])
    /\ UNCHANGED sqlPosts
    /\ UNCHANGED <<crudVars, listenVars, pageVars, poolVars, txVars, loaderVars,
                   authVars, directiveVars, seedVars, initVars>>

\* deletePost after its SELECT: DELETE FROM posts WHERE id = $1, return post[0]
SqlDeletePostDeletes(c) ==
    /\ c \in 1..Len(sqlCalls)
    /\ sqlCalls[c].pc = "selected"
    /\ sqlPosts' = SqlDeleteFrom(sqlPosts, PgInteger(sqlCalls[c].id)[1])
    /\ SqlEnds(c, SqlReturned(CHOOSE row \in sqlCalls[c].selected : TRUE))
    /\ UNCHANGED <<crudVars, listenVars, pageVars, poolVars, txVars, loaderVars,
                   authVars, directiveVars, seedVars, initVars>>

\* the posts tables a call can meet
SqlTables == SUBSET {SqlPostRow(n) : n \in 1..MaxSqlPosts}

InitSql ==
    /\ NoServer
    /\ Quiet({"sql"})
    /\ sqlPosts \in SqlTables
    /\ sqlCalls = <<>>

\* the calls are made one after another: a call is made when the one before
\* has returned or thrown
NextSql ==
    \/ \E id \in SqlIdInputs, args \in SqlUpdateInputs :
           SqlInFlight = {} /\ SqlUpdatePost(id, args)
    \/ \E id \in SqlIdInputs : SqlInFlight = {} /\ SqlDeletePost(id)
    \/ \E c \in 1..NumSqlCalls : SqlDeletePostDeletes(c)

SpecSql == InitSql /\ [][NextSql]_vars

\* the calls are made at any moment
NextSqlConcurrent ==
    \/ \E id \in SqlIdInputs, args \in SqlUpdateInputs : SqlUpdatePost(id, args)
    \/ \E id \in SqlIdInputs : SqlDeletePost(id)
    \/ \E c \in 1..NumSqlCalls : SqlDeletePostDeletes(c)

SpecSqlConcurrent == InitSql /\ [][NextSqlConcurrent]_vars

----------------------------------------------------------------------------
(* Claims on the SQL-backed mutations *)

\* the posts of the table a call was made on that its id argument matches
SqlMatched(call) ==
    IF PgInteger(call.id) = NaN THEN {}
    ELSE SqlWhereId(call.begun, PgInteger(call.id)[1])

\* the call made last has returned or thrown and no other was made since
SqlLastEnded(c) == c = Len(sqlCalls) /\ sqlCalls[c].pc = "done"

\* a deletePost on the id of a stored post removes that post and no other and
\* returns it as it was when the call was made
SqlDeleteRemovesAndReturns(c) ==
    LET call == sqlCalls[c]
    IN  (call.op = "deletePost" /\ SqlMatched(call) # {}) =>
            /\ call.outcome.kind = "post"
            /\ call.outcome.post[1] \in call.begun
            /\ call.outcome.post[1].id = PgInteger(call.id)[1]
            /\ sqlPosts = call.begun \ {call.outcome.post[1]}

\* C21 as claimed: a call whose id matches no post raises 'non trouvé' and
\* leaves the table unchanged; deletePost on an existing id removes exactly
\* that post and returns it as it was.
C21_UnknownIdIsNotFound ==
    \A c \in 1..Len(sqlCalls) :
        SqlLastEnded(c) =>
            /\ SqlMatched(sqlCalls[c]) = {} =>
                   /\ sqlCalls[c].outcome = SqlNotFound
                   /\ sqlPosts = sqlCalls[c].begun
            /\ SqlDeleteRemovesAndReturns(c)

\* C21, amended: updatePost and deletePost, called one at a time with an id
\* that is an integer matching no post, raise 'non trouvé', and called with an
\* id that is no integer are rejected by the database; either way the table is
\* unchanged; deletePost on an existing id removes exactly that post and
\* returns it as it was.
C21_UnknownIdIsNotFoundOrRejected ==
    \A c \in 1..Len(sqlCalls) :
        SqlLastEnded(c) =>
            /\ SqlMatched(sqlCalls[c]) = {} =>
                   /\ sqlCalls[c].outcome =
                          IF PgInteger(sqlCalls[c].id) = NaN
                          THEN SqlQueryRejected ELSE SqlNotFound
                   /\ sqlPosts = sqlCalls[c].begun
            /\ SqlDeleteRemovesAndReturns(c)

\* an updatePost on an id beyond the table raised 'non trouvé', then a
\* deletePost removed post 1 of two and returned it
C21_Witness ==
    /\ Len(sqlCalls) = 2
    /\ sqlCalls[1].op = "updatePost"
    /\ sqlCalls[1].outcome = SqlNotFound
    /\ sqlCalls[2].op = "deletePost"
    /\ sqlCalls[2].outcome = SqlReturned(SqlPostRow(1))
    /\ sqlPosts = {SqlPostRow(2)}

\* C25: of the deletePost calls made at any moment on the id of one stored
\* post, one returns the deleted post and every other raises 'non trouvé': no
\* two calls return the post, and a call that has ended without returning it
\* raised 'non trouvé'.
C25_OneDeleteReturnsThePost ==
    \A c, d \in 1..Len(sqlCalls) :
        LET first == sqlCalls[c]
            other == sqlCalls[d]
        IN  (/\ c # d
             /\ first.op = "deletePost" /\ other.op = "deletePost"
             /\ first.pc = "done" /\ other.pc = "done"
             /\ PgInteger(first.id) # NaN
             /\ PgInteger(first.id) = PgInteger(other.id)
             /\ first.outcome.kind = "post")
                => other.outcome = SqlNotFound

----------------------------------------------------------------------------
(* initDatabase of the PostgreSQL module (db.js) *)

\* INSERT INTO users (name, age) VALUES ('Guigui', 25), ('Test', 20)
SeedUserRows == <<[name |-> "Guigui", age |-> 25], [name |-> "Test", age |-> 20]>>

\* INSERT INTO posts ... VALUES: the three titles
SeedPostRows ==
    <<[title |-> "Introduction à GraphQL"],
      [title |-> "Les avantages de GraphQL par rapport à REST"],
      [title |-> "Comment structurer un schéma GraphQL efficace"]>>

\* parseInt(existingUsers[0].count) === 0
UsersTableEmpty(count) == count = 0

\* a call of initDatabase issues its first query
InitDatabaseCall ==
    /\ Len(initCalls) < NumInitCalls
    /\ initCalls' = Append(initCalls, [pc |-> "create users", count |-> 0])
    /\ UNCHANGED pgDb
    /\ UNCHANGED <<crudVars, listenVars, pageVars, poolVars, txVars, loaderVars,
                   authVars, directiveVars, seedVars, sqlVars>>

\* the awaited query of call c is over: the call goes on at pc `next`, or a
\* rejected query takes it to the catch block, which logs the error
InitGoes(c, ok, next) ==
    initCalls' = [initCalls EXCEPT ![c].pc = IF ok THEN next ELSE "failed"]

initFrame == <<crudVars, listenVars, pageVars, poolVars, txVars, loaderVars,
               authVars, directiveVars, seedVars, sqlVars>>

\* CREATE TABLE IF NOT EXISTS users settles
CreateUsersTableSettles(c, ok) ==
    /\ c \in 1..Len(initCalls)
    /\ initCalls[c].pc = "create users"
    /\ pgDb' = IF ok THEN [pgDb EXCEPT !.hasUsers = TRUE] ELSE pgDb
    /\ InitGoes(c, ok, "create posts")
    /\ UNCHANGED initFrame

\* CREATE TABLE IF NOT EXISTS posts settles
CreatePostsTableSettles(c, ok) ==
    /\ c \in 1..Len(initCalls)
    /\ initCalls[c].pc = "create posts"
    /\ pgDb' = IF ok THEN [pgDb EXCEPT !.hasPosts = TRUE] ELSE pgDb
    /\ InitGoes(c, ok, "count users")
    /\ UNCHANGED initFrame

\* SELECT COUNT(*) FROM users settles, then the test on existingUsers
CountUsersSettles(c, ok) ==
    /\ c \in 1..Len(initCalls)
    /\ initCalls[c].pc = "count users"
    /\ LET count == Len(pgDb.users)
       IN  initCalls' =
               [initCalls EXCEPT ![c] =
                   IF ~ok THEN [pc |-> "failed", count |-> 0]
                   ELSE IF UsersTableEmpty(count)
                   THEN [pc |-> "insert users", count |-> count]
                   ELSE [pc |-> "done", count |-> count]]
    /\ UNCHANGED pgDb
    /\ UNCHANGED initFrame

\* INSERT INTO users settles
InsertUsersSettles(c, ok) ==
    /\ c \in 1..Len(initCalls)
    /\ initCalls[c].pc = "insert users"
    /\ pgDb' = IF ok THEN [pgDb EXCEPT !.users = pgDb.users \o SeedUserRows] ELSE pgDb
    /\ InitGoes(c, ok, "insert posts")
    /\ UNCHANGED initFrame

\* INSERT INTO posts settles, then the success message
InsertPostsSettles(c, ok) ==
    /\ c \in 1..Len(initCalls)
    /\ initCalls[c].pc = "insert posts"
    /\ pgDb' = IF ok THEN [pgDb EXCEPT !.posts = pgDb.posts \o SeedPostRows] ELSE pgDb
    /\ InitGoes(c, ok, "done")
    /\ UNCHANGED initFrame

InitInitDatabase ==
    /\ NoServer
    /\ Quiet({"initDatabase"})
    /\ NoInitDatabase

\* initDatabase called at any moment, also while another call is awaiting
NextInitDatabase ==
    \/ InitDatabaseCall
    \/ \E c \in 1..NumInitCalls, ok \in BOOLEAN : CreateUsersTableSettles(c, ok)
    \/ \E c \in 1..NumInitCalls, ok \in BOOLEAN : CreatePostsTableSettles(c, ok)
    \/ \E c \in 1..NumInitCalls, ok \in BOOLEAN : CountUsersSettles(c, ok)
    \/ \E c \in 1..NumInitCalls, ok \in BOOLEAN : InsertUsersSettles(c, ok)
    \/ \E c \in 1..NumInitCalls, ok \in BOOLEAN : InsertPostsSettles(c, ok)

SpecInitDatabase == InitInitDatabase /\ [][NextInitDatabase]_vars

\* C24: initDatabase inserts the seed rows only into an empty users table, so
\* whatever the number of calls, one after another or concurrent, the users
\* table never holds the seed users twice and the seed posts are inserted at
\* most once.
C24_SeedInsertedAtMostOnce ==
    /\ Len(pgDb.users) <= Len(SeedUserRows)
    /\ Len(pgDb.posts) <= Len(SeedPostRows)

====
